---------------------------- MODULE Spec2Model ----------------------------
(***************************************************************************)
(* Model of the Sentinel System issue lifecycle engine                     *)
(* (services/issue_processor.py) together with the gateways it drives      *)
(* (services/github_service.py, services/git_service.py,                   *)
(* services/gemini_service.py).                                            *)
(*                                                                         *)
(* Every `await` of a gateway call is a suspension point of the asyncio    *)
(* event loop, so every gateway call is one atomic step and calls of       *)
(* different coroutines interleave between steps.  Every gateway call can  *)
(* raise (HTTP error, non-zero exit code); a raising tracker call has no    *)
(* effect, a raising create_branch may already have stashed the changes    *)
(* and checked out the base branch.                                        *)
(*                                                                         *)
(* Specifications:                                                         *)
(*   Spec           calls of process_issue on one issue, any labels        *)
(*   RoundTripSpec  the same with the maintainer who approves a proposal   *)
(*   SweepSpec      one run_now sweep (services/scheduler_service.py)      *)
(*                  over several issues                                    *)
(*   SchedSpec      one SchedulerService: start, stop, update_config, the  *)
(*                  timer loop and its sweeps                              *)
(*   ControlSpec    start, stop, get_status, get_logs up to a full log     *)
(*   PairSpec       calls of process_issue on two issues, one working copy *)
(*   LabelSpec      direct calls of GitHubService.remove_label             *)
(*   TimerSpec      start, stop and the timer loop over two issues         *)
(*   RelistedSpec   one run_now sweep that lists one issue twice           *)
(*   RefineSpec     calls of refine_proposal on one issue, any labels      *)
(*   RouterSpec     the endpoints of routers/scheduler.py                  *)
(*   LiveSpec       the timer loop of a scheduler that is never stopped,   *)
(*                  with fairness                                          *)
(*   ConfigSpec     one SchedulerService under any SCHEDULER_ENABLED, with *)
(*                  run_now                                                *)
(***************************************************************************)
EXTENDS Integers, Sequences, FiniteSets, TLC

(***************************************************************************)
(* Bounds of the model.                                                    *)
(***************************************************************************)
\* number of coroutines that may call process_issue concurrently
NumTasks == 2
\* total number of process_issue calls in one behaviour
MaxDispatch == 2

Tasks == 1..NumTasks

\* issue numbers known to the tracker
IssueNumbers == {42}

\* the text the assistant returns for a prompt of each kind
Texts(kind) ==
    IF kind = "analyze" THEN {"Add input validation."}
    ELSE IF kind = "refine" THEN {"Add input validation and tests."}
                        ELSE {"Validation added in parser.py."}

(***************************************************************************)
(* config.py: label names and git settings (the defaults).                 *)
(***************************************************************************)
GITHUB_ISSUE_LABEL == "ai-ready"
GITHUB_PROPOSAL_LABEL == "ai-proposal-pending"
GITHUB_APPROVED_LABEL == "ai-approved"
GITHUB_WORKING_LABEL == "ai-working"
GIT_BRANCH_PREFIX == "sentinel/issue-"

Markers ==
    {GITHUB_ISSUE_LABEL, GITHUB_PROPOSAL_LABEL, GITHUB_APPROVED_LABEL,
     GITHUB_WORKING_LABEL}

VARIABLES
    labels,     \* tracker: issue number -> set of label names
    comments,   \* tracker: issue number -> sequence of comments
    prs,        \* tracker: sequence of pull requests
    git,        \* the single working copy shared by all runs
    run,        \* task -> frame of its process_issue call
    nDispatch,  \* number of process_issue calls made so far
    labels0,    \* the labels the issues carried at the start (never changes)
    human,      \* number of label edits the maintainers have made
    http,       \* the last direct call of a tracker gateway method
    sched,      \* SchedulerService: is_running, task, stats
    logs,       \* SchedulerService.logs
    now,        \* the clock _add_log stamps entries with
    sweep,      \* task -> frame of its _scheduler_loop or run_now call
    reply       \* what the last call of a SchedulerService method returned

\* the state of one SchedulerService and of its coroutines
scheduler_vars == <<sched, logs, now, sweep, reply>>

vars == <<labels, comments, prs, git, run, nDispatch, labels0, human, http,
          scheduler_vars>>

(***************************************************************************)
(* Gateway operations, as functions of the state they act on.              *)
(***************************************************************************)
\* GitHubService.add_label: POST .../labels adds the label to the set
add_label(ls, l) == ls \cup {l}

\* mutant: the DELETE names no label of the issue; the 404 is swallowed
remove_label_Noop(ls, l) == ls

\* GitHubService.remove_label: DELETE .../labels/{label}; 404 is accepted
remove_label(ls, l) == ls \ {l}

\* GitHubService.add_comment: POST .../comments appends a comment
add_comment(cs, c) == Append(cs, c)

\* the base branch: from_branch="main" (create_branch), base="main" (line 201)
MainBranch == <<"main">>

\* branch_name = f"{settings.GIT_BRANCH_PREFIX}{issue_number}"
branch_name(n) == <<GIT_BRANCH_PREFIX, n>>

\* html_url of the pull request the tracker creates next
NextPrUrl == <<"pull", Len(prs) + 1>>

\* mutant: head and base exchanged
create_pull_request_HeadIsBase(n, head, text) ==
    Append(prs, [title |-> <<"Fix issue #", n>>, resolves |-> n,
                 summary |-> text, head |-> MainBranch, base |-> head,
                 html_url |-> NextPrUrl])

\* GitHubService.create_pull_request(title, body, head, base="main")
create_pull_request(n, head, text) ==
    Append(prs, [title |-> <<"Fix issue #", n>>, resolves |-> n,
                 summary |-> text, head |-> head, base |-> MainBranch,
                 html_url |-> NextPrUrl])

\* GitService.has_changes: staged, unstaged or untracked files exist
has_changes == git.dirty # {}

\* GitService.create_branch: stash uncommitted changes, checkout and pull
\* main, checkout -b branch_name
create_branch(b) ==
    [git EXCEPT !.stash = IF has_changes THEN Append(@, git.dirty) ELSE @,
                !.dirty = {},
                !.cur = b,
                !.branches = @ \cup {b}]

\* GitService.create_branch up to the command that fails: nothing done yet,
\* or changes stashed and main checked out (lines 90-96)
create_branch_interrupted(reached_checkout) ==
    IF reached_checkout
    THEN [git EXCEPT !.stash = IF has_changes THEN Append(@, git.dirty) ELSE @,
                     !.dirty = {},
                     !.cur = MainBranch]
    ELSE git

\* mutant: the checkout resets an existing branch (-B)
CreateBranchFails_Never(b) == FALSE

\* `git checkout -b` exits non-zero when the branch already exists
CreateBranchFails(b) == b \in git.branches

\* the assistant CLI runs in the working copy (-y) and may edit files
implement_changes(n, changed) ==
    [git EXCEPT !.dirty = IF changed THEN @ \cup {n} ELSE @]

\* GitService.commit_changes: git add . ; git commit -m message
commit_changes(n) ==
    [git EXCEPT !.commits = Append(@, [branch |-> git.cur,
                                       changes |-> git.dirty,
                                       message |-> <<"resolve issue #", n>>]),
                !.dirty = {}]

\* `git commit` exits non-zero when there is nothing to commit
CommitFails == git.dirty = {}

\* GitService.push_branch: git push -u origin branch_name
push_branch(b) == [git EXCEPT !.pushed = Append(@, b)]

\* `git push` exits non-zero when the local branch does not exist
PushFails(b) == b \notin git.branches

(***************************************************************************)
(* The comments process_issue posts.                                       *)
(***************************************************************************)
ProposalComment(proposal) == [kind |-> "proposal", text |-> proposal, url |-> <<>>]
CompletionComment(impl, url) == [kind |-> "completion", text |-> impl, url |-> url]
NoChangesComment(impl) == [kind |-> "no_changes", text |-> impl, url |-> <<>>]
ErrorComment(e) == [kind |-> "error", text |-> e, url |-> <<>>]

(***************************************************************************)
(* Frames of process_issue.  `labels` is the local list built at line 44,  *)
(* `fetched` says that get_issue has returned, `has_changes` is the local  *)
(* of line 172, `result` the dictionary the phase returned (lines 60/63), `outcome`     *)
(* what the caller of process_issue receives, `calls` the number of        *)
(* gateway calls the run has made so far, per gateway (the tracker's       *)
(* reads apart from its writes).                                           *)
(***************************************************************************)
NoResult == [status |-> "none", text |-> "", url |-> <<>>, branch |-> <<>>]

NoRun ==
    [pc |-> "idle", issue |-> 0, fetched |-> FALSE, labels |-> {}, text |-> "",
     has_changes |-> FALSE, url |-> <<>>,
     err |-> "", result |-> NoResult, outcome |-> NoResult,
     calls |-> [read |-> 0, write |-> 0, assistant |-> 0, vcs |-> 0]]

NewRun(n) == [NoRun EXCEPT !.pc = "get_issue", !.issue = n]

\* the gateway a call goes to
Gateway(op) ==
    CASE op = "get_issue" -> "read"
      [] op \in {"analyze_issue", "implement_solution", "refine_proposal"}
            -> "assistant"
      [] op \in {"create_branch", "has_changes", "commit_changes", "push_branch"}
            -> "vcs"
      [] OTHER -> "write"

\* the call `op` of task t returned; control moves to `next`
Step(t, op, next) ==
    [run[t] EXCEPT !.pc = next, !.calls[Gateway(op)] = @ + 1]

\* mutant: the handler of line 71 goes straight to the error comment
Raise_SkipsCleanup(t, op, e) ==
    [run[t] EXCEPT !.pc = "error_comment", !.err = e,
                   !.calls[Gateway(op)] = @ + 1]

\* the call `op` of task t raised inside the inner try (lines 56-69):
\* control moves to the handler at line 71
Raise(t, op, e) ==
    [run[t] EXCEPT !.pc = "remove_working_err", !.err = e,
                   !.calls[Gateway(op)] = @ + 1]

\* the call `op` of task t raised outside the inner try, or inside the
\* handler: the exception reaches the caller of process_issue (lines 81-83)
Propagate(t, op, e) ==
    [run[t] EXCEPT !.pc = "done", !.err = e,
                   !.outcome = [NoResult EXCEPT !.status = "raised"],
                   !.calls[Gateway(op)] = @ + 1]

\* mutant: the proposal-pending label takes precedence over the approved label
Phase_ProposalFirst(ls) ==
    IF GITHUB_APPROVED_LABEL \in ls /\ GITHUB_PROPOSAL_LABEL \notin ls
    THEN "create_branch" ELSE "analyze"

\* mutant: the test of line 58 negated
Phase_Negated(ls) ==
    IF GITHUB_APPROVED_LABEL \notin ls THEN "create_branch" ELSE "analyze"

\* line 58: which phase the fetched labels select
Phase(ls) == IF GITHUB_APPROVED_LABEL \in ls THEN "create_branch" ELSE "analyze"

\* mutant: line 49 tests the approved label
AlreadyProcessing_TestsApproved(ls) == GITHUB_APPROVED_LABEL \in ls

\* line 49: the issue is already being processed
AlreadyProcessing(ls) == GITHUB_WORKING_LABEL \in ls

\* line 51: the dictionary returned for an issue that is being processed
SkippedResult == [NoResult EXCEPT !.status = "already_processing"]

\* lines 132-136
ProposalCreated(proposal) ==
    [NoResult EXCEPT !.status = "proposal_created", !.text = proposal]

\* lines 226-231
Implemented(url, b) ==
    [NoResult EXCEPT !.status = "implemented", !.url = url, !.branch = b]

\* lines 250-254
NoChanges(impl) == [NoResult EXCEPT !.status = "no_changes", !.text = impl]

(***************************************************************************)
(* SchedulerService (scheduler_service.py).  One instance: `sched` holds   *)
(* is_running, task and stats, `logs` the run log.  A date is modelled by  *)
(* what it was computed from: last_run by the number of the sweep that     *)
(* set it, next_run by the interval added to the time of the assignment;   *)
(* None is the empty sequence.                                             *)
(***************************************************************************)
SCHEDULER_ENABLED == FALSE
SCHEDULER_INTERVAL_MINUTES == 10
max_logs == 100
SweepLimit == 50

None == <<>>

\* the intervals a configuration update may carry
Intervals == {5, SCHEDULER_INTERVAL_MINUTES}

\* lines 27-36: the fields __init__ sets
NewScheduler ==
    [is_running |-> FALSE, task |-> 0, total_runs |-> 0, issues_processed |-> 0,
     last_run |-> None, next_run |-> None, enabled |-> SCHEDULER_ENABLED,
     interval_minutes |-> SCHEDULER_INTERVAL_MINUTES]

\* lines 334-339: a log entry
LogEntry(ts, level, message) ==
    [timestamp |-> ts, level |-> level, message |-> message]

\* mutant: line 345 keeps the first max_logs entries
append_log_KeepsOldest(lg, e) ==
    LET a == Append(lg, e)
    IN  IF Len(a) > max_logs THEN SubSeq(a, 1, max_logs) ELSE a

\* lines 341-345: append, then keep the last max_logs entries
append_log(lg, e) ==
    LET a == Append(lg, e)
    IN  IF Len(a) > max_logs THEN SubSeq(a, Len(a) - max_logs + 1, Len(a)) ELSE a

\* mutant: line 198 slices from the front, logs[:limit]
get_logs_Oldest(lg, limit) ==
    IF limit > 0
    THEN IF limit >= Len(lg) THEN lg ELSE SubSeq(lg, 1, limit)
    ELSE lg

\* line 198: logs[-limit:] if limit > 0 else logs
get_logs(lg, limit) ==
    IF limit > 0
    THEN IF limit >= Len(lg) THEN lg ELSE SubSeq(lg, Len(lg) - limit + 1, Len(lg))
    ELSE lg

\* lines 178-186: the dictionary get_status returns
get_status(s) ==
    [enabled |-> s.enabled, running |-> s.is_running,
     interval_minutes |-> s.interval_minutes, last_run |-> s.last_run,
     next_run |-> s.next_run, total_runs |-> s.total_runs,
     issues_processed |-> s.issues_processed]

\* what a method call returned: `seq` numbers the calls, `op` is the method,
\* `success` the flag of the dictionary start, stop and update_config
\* return, `raised` says that the call raised, `status` and `entries` are
\* the values get_status and get_logs return
NoReply ==
    [seq |-> 0, op |-> "none", success |-> FALSE, raised |-> FALSE,
     status |-> None, entries |-> <<>>]

Reply(op, ok) ==
    [NoReply EXCEPT !.seq = reply.seq + 1, !.op = op, !.success = ok]

(***************************************************************************)
(* Frames of the coroutines that sweep: the task start() creates for       *)
(* _scheduler_loop (kind "timer") and a call of run_now (kind "manual").   *)
(* `wait` is the argument of the pending asyncio.sleep, `issues` and       *)
(* `all_issues` the locals of lines 255 and 268, `pos` the position of the *)
(* for loop of line 276 in all_issues, `called` the issue numbers          *)
(* process_issue has been called with (line 289), in order.                *)
(***************************************************************************)
NoSweep ==
    [kind |-> "none", pc |-> "idle", wait |-> 0, issues |-> <<>>,
     all_issues |-> <<>>, pos |-> 0, issues_processed |-> 0,
     processing_errors |-> 0, called |-> <<>>]

\* no tracker gateway method has been called directly yet
NoHttp == [seq |-> 0, op |-> "none", label |-> "", status |-> 0, raised |-> FALSE]

\* the working copy of a fresh clone
CleanGit ==
    [cur |-> MainBranch, dirty |-> {}, stash |-> <<>>, branches |-> {},
     commits |-> <<>>, pushed |-> <<>>]

Init ==
    /\ labels \in [IssueNumbers -> SUBSET Markers]
    /\ comments = [n \in IssueNumbers |-> <<>>]
    /\ prs = <<>>
    /\ git = [cur |-> MainBranch, dirty |-> {}, stash |-> <<>>, branches |-> {},
              commits |-> <<>>, pushed |-> <<>>]
    /\ run = [t \in Tasks |-> NoRun]
    /\ nDispatch = 0
    /\ labels0 = labels
    /\ human = 0
    /\ http = NoHttp
    /\ sched = NewScheduler
    /\ logs = <<>>
    /\ now = 0
    /\ sweep = [t \in Tasks |-> NoSweep]
    /\ reply = NoReply

(***************************************************************************)
(* A caller (a sweep of the scheduler, a trigger-now request, the          *)
(* delivery boundary) calls process_issue(n).                              *)
(***************************************************************************)
Free(t) == run[t].pc \in {"idle", "done"}

Dispatch(t, n) ==
    /\ Free(t)
    /\ \A u \in Tasks : Free(u) => t <= u
    /\ nDispatch < MaxDispatch
    /\ run' = [run EXCEPT ![t] = NewRun(n)]
    /\ nDispatch' = nDispatch + 1
    /\ UNCHANGED <<labels, comments, prs, git, labels0, human, http, scheduler_vars>>

\* mutant: the labels the caller's listing gave for the issue
issue_labels_FromListing(t) ==
    IF sweep[t].pc = "process"
    THEN sweep[t].all_issues[sweep[t].pos].labels
    ELSE labels[run[t].issue]

\* lines 41-44: the label names of the issue get_issue returns
issue_labels(t) == labels[run[t].issue]

\* lines 41-51: fetch the issue, return early when it carries the working label
GetIssue(t) ==
    /\ run[t].pc = "get_issue"
    /\ \/ LET r == [Step(t, "get_issue", "add_working") EXCEPT
                        !.fetched = TRUE, !.labels = issue_labels(t)]
          IN  run' = [run EXCEPT ![t] =
                        IF AlreadyProcessing(r.labels)
                        THEN [r EXCEPT !.pc = "done", !.outcome = SkippedResult]
                        ELSE r]
       \/ run' = [run EXCEPT ![t] = Propagate(t, "get_issue", "GitHub API error")]
    /\ UNCHANGED <<labels, comments, prs, git, nDispatch, labels0, human, http, scheduler_vars>>

\* mutant: the phase is selected and started before the working label is added
AddWorking_Deferred(t) ==
    /\ run[t].pc = "add_working"
    /\ run' = [run EXCEPT ![t] =
                  Step(t, "add_label_working", Phase(run[t].labels))]
    /\ UNCHANGED <<labels, comments, prs, git, nDispatch, labels0, human, http, scheduler_vars>>

\* line 54: add the working label, then select the phase (line 58)
AddWorking(t) ==
    /\ run[t].pc = "add_working"
    /\ \/ /\ labels' = [labels EXCEPT ![run[t].issue] =
                            add_label(@, GITHUB_WORKING_LABEL)]
          /\ run' = [run EXCEPT ![t] =
                        Step(t, "add_label_working", Phase(run[t].labels))]
       \/ /\ run' = [run EXCEPT ![t] =
                        Propagate(t, "add_label_working", "GitHub API error")]
          /\ UNCHANGED labels
    /\ UNCHANGED <<comments, prs, git, nDispatch, labels0, human, http, scheduler_vars>>

(***************************************************************************)
(* _analyze_and_propose (lines 85-140)                                     *)
(***************************************************************************)
\* line 101: gemini_service.analyze_issue
Analyze(t) ==
    /\ run[t].pc = "analyze"
    /\ \/ \E proposal \in Texts("analyze") :
            run' = [run EXCEPT ![t] =
                      [Step(t, "analyze_issue", "propose_comment") EXCEPT
                            !.text = proposal]]
       \/ run' = [run EXCEPT ![t] = Raise(t, "analyze_issue", "Gemini CLI error")]
    /\ UNCHANGED <<labels, comments, prs, git, nDispatch, labels0, human, http, scheduler_vars>>

\* line 122: post the proposal comment
ProposeComment(t) ==
    /\ run[t].pc = "propose_comment"
    /\ \/ /\ comments' = [comments EXCEPT ![run[t].issue] =
                            add_comment(@, ProposalComment(run[t].text))]
          /\ run' = [run EXCEPT ![t] = Step(t, "add_comment", "add_proposal")]
       \/ /\ run' = [run EXCEPT ![t] = Raise(t, "add_comment", "GitHub API error")]
          /\ UNCHANGED comments
    /\ UNCHANGED <<labels, prs, git, nDispatch, labels0, human, http, scheduler_vars>>

\* line 125: add the proposal-pending label
AddProposal(t) ==
    /\ run[t].pc = "add_proposal"
    /\ \/ /\ labels' = [labels EXCEPT ![run[t].issue] =
                            add_label(@, GITHUB_PROPOSAL_LABEL)]
          /\ run' = [run EXCEPT ![t] = Step(t, "add_label_proposal", "remove_ready")]
       \/ /\ run' = [run EXCEPT ![t] =
                        Raise(t, "add_label_proposal", "GitHub API error")]
          /\ UNCHANGED labels
    /\ UNCHANGED <<comments, prs, git, nDispatch, labels0, human, http, scheduler_vars>>

\* line 128: remove the ready label; lines 132-136: return the result
RemoveReady(t) ==
    /\ run[t].pc = "remove_ready"
    /\ \/ /\ labels' = [labels EXCEPT ![run[t].issue] =
                            remove_label(@, GITHUB_ISSUE_LABEL)]
          /\ run' = [run EXCEPT ![t] =
                        [Step(t, "remove_label_ready", "remove_working") EXCEPT
                            !.result = ProposalCreated(run[t].text)]]
       \/ /\ run' = [run EXCEPT ![t] =
                        Raise(t, "remove_label_ready", "GitHub API error")]
          /\ UNCHANGED labels
    /\ UNCHANGED <<comments, prs, git, nDispatch, labels0, human, http, scheduler_vars>>

(***************************************************************************)
(* _implement_approved_solution (lines 142-258)                            *)
(***************************************************************************)
\* lines 163-164: create the branch of the issue
CreateBranch(t) ==
    /\ run[t].pc = "create_branch"
    /\ \/ /\ ~CreateBranchFails(branch_name(run[t].issue))
          /\ git' = create_branch(branch_name(run[t].issue))
          /\ run' = [run EXCEPT ![t] = Step(t, "create_branch", "implement")]
       \/ /\ run' = [run EXCEPT ![t] =
                        Raise(t, "create_branch", "Git command failed")]
          /\ \E reached_checkout \in BOOLEAN :
                /\ CreateBranchFails(branch_name(run[t].issue)) => reached_checkout
                /\ git' = create_branch_interrupted(reached_checkout)
    /\ UNCHANGED <<labels, comments, prs, nDispatch, labels0, human, http, scheduler_vars>>

\* lines 167-169: gemini_service.implement_solution; the CLI may have
\* edited the working copy whether or not it exits with success
Implement(t) ==
    /\ run[t].pc = "implement"
    /\ \E changed \in BOOLEAN :
         /\ git' = implement_changes(run[t].issue, changed)
         /\ \/ \E impl \in Texts("implement") :
                 run' = [run EXCEPT ![t] =
                           [Step(t, "implement_solution", "has_changes") EXCEPT
                                !.text = impl]]
            \/ run' = [run EXCEPT ![t] =
                         Raise(t, "implement_solution", "Gemini CLI error")]
    /\ UNCHANGED <<labels, comments, prs, nDispatch, labels0, human, http, scheduler_vars>>

\* lines 172-174: are there changes to commit
HasChanges(t) ==
    /\ run[t].pc = "has_changes"
    /\ \/ run' = [run EXCEPT ![t] =
                    [Step(t, "has_changes",
                          IF has_changes THEN "commit" ELSE "no_changes_comment")
                        EXCEPT !.has_changes = has_changes]]
       \/ run' = [run EXCEPT ![t] = Raise(t, "has_changes", "Git command failed")]
    /\ UNCHANGED <<labels, comments, prs, git, nDispatch, labels0, human, http, scheduler_vars>>

\* mutant: after the commit the pull request is opened without a push
Commit_SkipsPush(t) ==
    /\ run[t].pc = "commit"
    /\ ~CommitFails
    /\ git' = commit_changes(run[t].issue)
    /\ run' = [run EXCEPT ![t] = Step(t, "commit_changes", "create_pr")]
    /\ UNCHANGED <<labels, comments, prs, nDispatch, labels0, human, http, scheduler_vars>>

\* lines 176-177: commit the changes
Commit(t) ==
    /\ run[t].pc = "commit"
    /\ \/ /\ ~CommitFails
          /\ git' = commit_changes(run[t].issue)
          /\ run' = [run EXCEPT ![t] = Step(t, "commit_changes", "push")]
       \/ /\ run' = [run EXCEPT ![t] =
                        Raise(t, "commit_changes", "Git command failed")]
          /\ UNCHANGED git
    /\ UNCHANGED <<labels, comments, prs, nDispatch, labels0, human, http, scheduler_vars>>

\* line 180: push the branch
Push(t) ==
    /\ run[t].pc = "push"
    /\ \/ /\ ~PushFails(branch_name(run[t].issue))
          /\ git' = push_branch(branch_name(run[t].issue))
          /\ run' = [run EXCEPT ![t] = Step(t, "push_branch", "create_pr")]
       \/ /\ run' = [run EXCEPT ![t] = Raise(t, "push_branch", "Git command failed")]
          /\ UNCHANGED git
    /\ UNCHANGED <<labels, comments, prs, nDispatch, labels0, human, http, scheduler_vars>>

\* lines 183-202: open the pull request
CreatePr(t) ==
    /\ run[t].pc = "create_pr"
    /\ \/ /\ prs' = create_pull_request(run[t].issue, branch_name(run[t].issue),
                                        run[t].text)
          /\ run' = [run EXCEPT ![t] =
                        [Step(t, "create_pull_request", "completion_comment") EXCEPT
                            !.url = NextPrUrl]]
       \/ /\ run' = [run EXCEPT ![t] =
                        Raise(t, "create_pull_request", "GitHub API error")]
          /\ UNCHANGED prs
    /\ UNCHANGED <<labels, comments, git, nDispatch, labels0, human, http, scheduler_vars>>

\* lines 205-219: post the completion comment
PostCompletion(t) ==
    /\ run[t].pc = "completion_comment"
    /\ \/ /\ comments' = [comments EXCEPT ![run[t].issue] =
                add_comment(@, CompletionComment(run[t].text, run[t].url))]
          /\ run' = [run EXCEPT ![t] = Step(t, "add_comment", "remove_approved")]
       \/ /\ run' = [run EXCEPT ![t] = Raise(t, "add_comment", "GitHub API error")]
          /\ UNCHANGED comments
    /\ UNCHANGED <<labels, prs, git, nDispatch, labels0, human, http, scheduler_vars>>

\* mutant: line 222 missing, the approved label stays
RemoveApproved_KeepsLabel(t) ==
    /\ run[t].pc = "remove_approved"
    /\ run' = [run EXCEPT ![t] =
                  [Step(t, "remove_label_approved", "remove_working") EXCEPT
                        !.calls = run[t].calls,
                        !.result = Implemented(run[t].url,
                                               branch_name(run[t].issue))]]
    /\ UNCHANGED <<labels, comments, prs, git, nDispatch, labels0, human, http,
                   scheduler_vars>>

\* line 222: remove the approved label; lines 226-231: return the result
RemoveApproved(t) ==
    /\ run[t].pc = "remove_approved"
    /\ \/ /\ labels' = [labels EXCEPT ![run[t].issue] =
                            remove_label(@, GITHUB_APPROVED_LABEL)]
          /\ run' = [run EXCEPT ![t] =
                        [Step(t, "remove_label_approved", "remove_working") EXCEPT
                            !.result = Implemented(run[t].url,
                                                   branch_name(run[t].issue))]]
       \/ /\ run' = [run EXCEPT ![t] =
                        Raise(t, "remove_label_approved", "GitHub API error")]
          /\ UNCHANGED labels
    /\ UNCHANGED <<comments, prs, git, nDispatch, labels0, human, http, scheduler_vars>>

\* lines 234-247: post the no-changes comment
PostNoChanges(t) ==
    /\ run[t].pc = "no_changes_comment"
    /\ \/ /\ comments' = [comments EXCEPT ![run[t].issue] =
                            add_comment(@, NoChangesComment(run[t].text))]
          /\ run' = [run EXCEPT ![t] = Step(t, "add_comment", "remove_approved_nc")]
       \/ /\ run' = [run EXCEPT ![t] = Raise(t, "add_comment", "GitHub API error")]
          /\ UNCHANGED comments
    /\ UNCHANGED <<labels, prs, git, nDispatch, labels0, human, http, scheduler_vars>>

\* mutant: line 248 missing, the approved label stays
RemoveApprovedNoChanges_KeepsLabel(t) ==
    /\ run[t].pc = "remove_approved_nc"
    /\ run' = [run EXCEPT ![t] =
                  [Step(t, "remove_label_approved", "remove_working") EXCEPT
                        !.calls = run[t].calls,
                        !.result = NoChanges(run[t].text)]]
    /\ UNCHANGED <<labels, comments, prs, git, nDispatch, labels0, human, http, scheduler_vars>>

\* line 248: remove the approved label; lines 250-254: return the result
RemoveApprovedNoChanges(t) ==
    /\ run[t].pc = "remove_approved_nc"
    /\ \/ /\ labels' = [labels EXCEPT ![run[t].issue] =
                            remove_label(@, GITHUB_APPROVED_LABEL)]
          /\ run' = [run EXCEPT ![t] =
                        [Step(t, "remove_label_approved", "remove_working") EXCEPT
                            !.result = NoChanges(run[t].text)]]
       \/ /\ run' = [run EXCEPT ![t] =
                        Raise(t, "remove_label_approved", "GitHub API error")]
          /\ UNCHANGED labels
    /\ UNCHANGED <<comments, prs, git, nDispatch, labels0, human, http, scheduler_vars>>

(***************************************************************************)
(* process_issue, after the phase (lines 65-79)                            *)
(***************************************************************************)
\* lines 66-69: remove the working label and return the phase's result; a
\* failure of this call is inside the inner try and reaches the handler
RemoveWorking(t) ==
    /\ run[t].pc = "remove_working"
    /\ \/ /\ labels' = [labels EXCEPT ![run[t].issue] =
                            remove_label(@, GITHUB_WORKING_LABEL)]
          /\ run' = [run EXCEPT ![t] =
                        [Step(t, "remove_label_working", "done") EXCEPT
                            !.outcome = run[t].result]]
       \/ /\ run' = [run EXCEPT ![t] =
                        Raise(t, "remove_label_working", "GitHub API error")]
          /\ UNCHANGED labels
    /\ UNCHANGED <<comments, prs, git, nDispatch, labels0, human, http, scheduler_vars>>

\* line 73: the handler removes the working label; a failure of this call
\* leaves the handler and reaches the caller
RemoveWorkingOnError(t) ==
    /\ run[t].pc = "remove_working_err"
    /\ \/ /\ labels' = [labels EXCEPT ![run[t].issue] =
                            remove_label(@, GITHUB_WORKING_LABEL)]
          /\ run' = [run EXCEPT ![t] = Step(t, "remove_label_working", "error_comment")]
       \/ /\ run' = [run EXCEPT ![t] =
                        Propagate(t, "remove_label_working", "GitHub API error")]
          /\ UNCHANGED labels
    /\ UNCHANGED <<comments, prs, git, nDispatch, labels0, human, http, scheduler_vars>>

\* lines 76-79: the handler posts the error comment and re-raises
PostError(t) ==
    /\ run[t].pc = "error_comment"
    /\ \/ /\ comments' = [comments EXCEPT ![run[t].issue] =
                            add_comment(@, ErrorComment(run[t].err))]
          /\ run' = [run EXCEPT ![t] =
                        [Step(t, "add_comment", "done") EXCEPT
                            !.outcome = [NoResult EXCEPT !.status = "raised"]]]
       \/ /\ run' = [run EXCEPT ![t] =
                        Propagate(t, "add_comment", "GitHub API error")]
          /\ UNCHANGED comments
    /\ UNCHANGED <<labels, prs, git, nDispatch, labels0, human, http, scheduler_vars>>

\* one step of a process_issue call: the return of the call it awaits
ProcessStep ==
    \/ \E t \in Tasks : GetIssue(t)
    \/ \E t \in Tasks : AddWorking(t)
    \/ \E t \in Tasks : Analyze(t)
    \/ \E t \in Tasks : ProposeComment(t)
    \/ \E t \in Tasks : AddProposal(t)
    \/ \E t \in Tasks : RemoveReady(t)
    \/ \E t \in Tasks : CreateBranch(t)
    \/ \E t \in Tasks : Implement(t)
    \/ \E t \in Tasks : HasChanges(t)
    \/ \E t \in Tasks : Commit(t)
    \/ \E t \in Tasks : Push(t)
    \/ \E t \in Tasks : CreatePr(t)
    \/ \E t \in Tasks : PostCompletion(t)
    \/ \E t \in Tasks : RemoveApproved(t)
    \/ \E t \in Tasks : PostNoChanges(t)
    \/ \E t \in Tasks : RemoveApprovedNoChanges(t)
    \/ \E t \in Tasks : RemoveWorking(t)
    \/ \E t \in Tasks : RemoveWorkingOnError(t)
    \/ \E t \in Tasks : PostError(t)

Next ==
    \/ \E t \in Tasks, n \in IssueNumbers : Dispatch(t, n)
    \/ ProcessStep

Spec == Init /\ [][Next]_vars

(***************************************************************************)
(* The round trip of an issue: runs of process_issue and the maintainer    *)
(* who approves a proposal as the proposal comment asks (lines 113-116),   *)
(* replacing the proposal-pending label by the approved label.  The runs   *)
(* follow one another: the k-th call of process_issue is made when the     *)
(* earlier ones are over, and uses frame k, so that their frames stay.     *)
(***************************************************************************)
MaxHuman == 1

HumanApproves(n) ==
    /\ human < MaxHuman
    /\ GITHUB_PROPOSAL_LABEL \in labels[n]
    /\ labels' = [labels EXCEPT ![n] =
                    add_label(remove_label(@, GITHUB_PROPOSAL_LABEL),
                              GITHUB_APPROVED_LABEL)]
    /\ human' = human + 1
    /\ UNCHANGED <<comments, prs, git, run, nDispatch, labels0, http,
                   scheduler_vars>>

Call(t, n) ==
    /\ t = nDispatch + 1
    /\ nDispatch < MaxDispatch
    /\ \A u \in Tasks : Free(u)
    /\ run[t].pc = "idle"
    /\ run' = [run EXCEPT ![t] = NewRun(n)]
    /\ nDispatch' = nDispatch + 1
    /\ UNCHANGED <<labels, comments, prs, git, labels0, human, http, scheduler_vars>>

RoundTripInit ==
    /\ Init
    /\ \A n \in IssueNumbers : labels[n] = {GITHUB_ISSUE_LABEL}

RoundTripNext ==
    \/ \E t \in Tasks, n \in IssueNumbers : Call(t, n)
    \/ \E n \in IssueNumbers : HumanApproves(n)
    \/ ProcessStep

RoundTripSpec == RoundTripInit /\ [][RoundTripNext]_vars

(***************************************************************************)
(* The methods of SchedulerService, as functions of the state they act on. *)
(* asyncio runs a coroutine without interruption from one await that       *)
(* suspends to the next: start, update_config, get_status and get_logs     *)
(* never suspend, and stop suspends only to let the cancelled task end.    *)
(***************************************************************************)
Service ==
    [sched |-> sched, logs |-> logs, now |-> now, sweep |-> sweep, run |-> run,
     nDispatch |-> nDispatch]

Set(S) ==
    /\ sched' = S.sched
    /\ logs' = S.logs
    /\ now' = S.now
    /\ sweep' = S.sweep
    /\ run' = S.run
    /\ nDispatch' = S.nDispatch

\* lines 325-345: _add_log
add_log(S, level, message) ==
    [S EXCEPT !.logs = append_log(@, LogEntry(S.now, level, message)),
              !.now = @ + 1]

\* the coroutine of slot t has ended, or the slot was never used
Ended(S, t) == S.sweep[t].pc \in {"idle", "done", "raised", "cancelled"}

HasFreeSlot(S) == \E t \in Tasks : Ended(S, t)

\* the slot a new coroutine gets: the lowest one that is free
FreeSlot(S) ==
    CHOOSE t \in Tasks : Ended(S, t) /\ \A u \in Tasks : Ended(S, u) => t <= u

\* line 211: the loop awaits asyncio.sleep(interval_minutes * 60)
Sleeping(interval) ==
    [NoSweep EXCEPT !.kind = "timer", !.pc = "sleep", !.wait = interval]

\* mutant: the warning of line 49 goes to the run log as well
start_LogsWarning(S) ==
    IF S.sched.is_running
    THEN add_log(S, "warning", "Scheduler is already running")
    ELSE LET t == FreeSlot(S)
         IN  add_log([S EXCEPT !.sched.is_running = TRUE,
                               !.sched.enabled = TRUE,
                               !.sched.task = t,
                               !.sched.next_run = <<S.sched.interval_minutes>>,
                               !.sweep[t] = Sleeping(S.sched.interval_minutes),
                               !.run[t] = NoRun],
                     "info", "Scheduler started")

\* lines 40-64: start
start(S) ==
    IF S.sched.is_running
    THEN S
    ELSE LET t == FreeSlot(S)
         IN  add_log([S EXCEPT !.sched.is_running = TRUE,
                               !.sched.enabled = TRUE,
                               !.sched.task = t,
                               !.sched.next_run = <<S.sched.interval_minutes>>,
                               !.sweep[t] = Sleeping(S.sched.interval_minutes),
                               !.run[t] = NoRun],
                     "info", "Scheduler started")

\* line 90: self.task and not self.task.done()
TaskPending(S) ==
    /\ S.sched.task \in Tasks
    /\ S.sweep[S.sched.task].kind = "timer"
    /\ ~Ended(S, S.sched.task)

(***************************************************************************)
(* lines 91-95: task.cancel() raises CancelledError at the await the loop  *)
(* task is suspended in: the sleep of line 211, a get_issues call, or a    *)
(* gateway call of the process_issue call of line 289, which the loop task *)
(* itself is executing.  CancelledError is a BaseException: the handlers   *)
(* `except Exception` of issue_processor.py lines 71 and 81 and of line    *)
(* 296 do not catch it; line 227 does, and the loop ends.  The call that   *)
(* was pending has no effect any more.                                     *)
(***************************************************************************)
cancel(S, t) ==
    [S EXCEPT !.sweep[t] = [NoSweep EXCEPT !.kind = "timer", !.pc = "cancelled"],
              !.run[t] = IF S.sweep[t].pc = "process" /\ S.run[t].pc # "done"
                         THEN [@ EXCEPT !.pc = "cancelled"]
                         ELSE @]

\* lines 72-99: stop
stop(S) ==
    IF ~S.sched.is_running
    THEN S
    ELSE LET T == [S EXCEPT !.sched.is_running = FALSE,
                            !.sched.enabled = FALSE,
                            !.sched.next_run = None]
         IN  add_log(IF TaskPending(T) THEN cancel(T, T.sched.task) ELSE T,
                     "info", "Scheduler stopped")

\* lines 128-165: update_config
update_config(S, enabled, interval_minutes) ==
    LET old_interval == S.sched.interval_minutes
        T == [S EXCEPT !.sched.interval_minutes = interval_minutes]
        U == IF enabled /\ ~T.sched.is_running THEN start(T)
             ELSE IF ~enabled /\ T.sched.is_running THEN stop(T)
             ELSE IF T.sched.is_running /\ interval_minutes # old_interval
                  THEN start(stop(T))
                  ELSE T
    IN  add_log(U, "info", "Scheduler configuration updated")

(***************************************************************************)
(* github_service.py lines 29-74: get_issues lists the open issues that    *)
(* carry `label`, newest first (issue numbers grow with creation), at most *)
(* `limit` of them, each with the labels it carries when listed.           *)
(***************************************************************************)
RECURSIVE NewestFirst(_)
NewestFirst(S) ==
    IF S = {} THEN <<>>
    ELSE LET m == CHOOSE x \in S : \A y \in S : y <= x
         IN  <<m>> \o NewestFirst(S \ {m})

get_issues(label, limit) ==
    LET found == NewestFirst({n \in DOMAIN labels : label \in labels[n]})
        page == IF Len(found) > limit THEN SubSeq(found, 1, limit) ELSE found
    IN  [i \in 1..Len(page) |-> [number |-> page[i], labels |-> labels[page[i]]]]

\* mutant: the test of line 282 missing
NextIssue_NoSkip(all_issues, pos) ==
    IF pos < Len(all_issues) THEN pos + 1 ELSE 0

\* lines 276-284: the position of the next listed issue the for loop calls
\* process_issue for, skipping those listed with the working label; 0 when
\* the loop is over
NextIssue(all_issues, pos) ==
    LET rest == {i \in (pos + 1)..Len(all_issues) :
                    GITHUB_WORKING_LABEL \notin all_issues[i].labels}
    IN  IF rest = {} THEN 0 ELSE CHOOSE i \in rest : \A j \in rest : i <= j

\* lines 248-255: _process_ready_issues begins, in the coroutine of slot t
BeginSweep(S, t, kind) ==
    [S EXCEPT !.sched.last_run = <<S.sched.total_runs + 1>>,
              !.sched.total_runs = @ + 1,
              !.sweep[t] = [NoSweep EXCEPT !.kind = kind, !.pc = "list_ready"],
              !.run[t] = NoRun]

\* line 208: the loop tests is_running and sleeps again, or ends; the
\* locals of the sweep that is over are gone
LoopAgain(S, t) ==
    [S EXCEPT !.sweep[t] =
                    IF S.sched.is_running
                    THEN Sleeping(S.sched.interval_minutes)
                    ELSE [NoSweep EXCEPT !.kind = "timer", !.pc = "done"],
              !.run[t] = NoRun]

\* mutant: an error of the sweep ends the loop, as the handler of lines
\* 235-238 does
SweepRaises_Fatal(S, t) ==
    IF S.sweep[t].kind = "manual"
    THEN add_log([S EXCEPT !.sweep[t].pc = "raised"],
                 "error", "Manual scheduler run failed")
    ELSE [S EXCEPT !.sched.is_running = FALSE,
                   !.sched.enabled = FALSE,
                   !.sweep[t] = [NoSweep EXCEPT !.kind = "timer", !.pc = "done"],
                   !.run[t] = NoRun]

\* mutant: after an error the loop sweeps again without sleeping
SweepRaises_NoSleep(S, t) ==
    IF S.sweep[t].kind = "manual"
    THEN add_log([S EXCEPT !.sweep[t].pc = "raised"],
                 "error", "Manual scheduler run failed")
    ELSE BeginSweep(add_log(S, "error", "Scheduler loop error"), t, "timer")

\* a get_issues call of the sweep raised (lines 321-323): run_now logs it
\* and raises (lines 123-126), the loop logs it and goes on (lines 230-233)
SweepRaises(S, t) ==
    IF S.sweep[t].kind = "manual"
    THEN add_log([S EXCEPT !.sweep[t].pc = "raised"],
                 "error", "Manual scheduler run failed")
    ELSE LoopAgain(add_log(S, "error", "Scheduler loop error"), t)

\* lines 303-319: the for loop is over; run_now logs and returns (lines
\* 116-121), the loop sets next_run, logs and goes on (lines 220-225)
FinishSweep(S, t, f) ==
    LET T == [S EXCEPT !.sched.issues_processed = @ + f.issues_processed,
                       !.sweep[t] = [f EXCEPT !.pc = "done"]]
    IN  IF f.kind = "manual"
        THEN add_log(T, "info", "Manual scheduler run completed")
        ELSE LoopAgain(
                add_log([T EXCEPT !.sched.next_run =
                                        <<T.sched.interval_minutes>>],
                        "info", "Scheduled run completed"), t)

\* lines 276-289: the for loop goes on from frame f: it calls process_issue
\* for the next listed issue without the working label, or is over
Continue(S, t, f) ==
    LET k == NextIssue(f.all_issues, f.pos)
    IN  IF k = 0
        THEN FinishSweep(S, t, f)
        ELSE [S EXCEPT !.sweep[t] =
                            [f EXCEPT !.pc = "process", !.pos = k,
                                      !.called = Append(@, f.all_issues[k].number)],
                       !.run[t] = NewRun(f.all_issues[k].number),
                       !.nDispatch = @ + 1]

\* lines 291-300: process_issue returned or raised
Returned(f, r) ==
    [f EXCEPT !.issues_processed =
                    IF r.outcome.status \in {"raised", "already_processing"}
                    THEN @ ELSE @ + 1,
              !.processing_errors =
                    IF r.outcome.status = "raised" THEN @ + 1 ELSE @]

(***************************************************************************)
(* Calls of the methods, and the steps of the coroutines that sweep.       *)
(***************************************************************************)
MaxOps == 4
MaxCalls == 102

Limits == {-1, 0, 1, 50}

\* fewer than `max` calls of the methods and sweeps have been made
Within(max) == reply.seq + sched.total_runs < max

\* what the methods of SchedulerService themselves never touch
tracker_vars == <<labels, comments, prs, git, labels0, human, http>>

\* lines 40-64: a call of start
Start ==
    /\ HasFreeSlot(Service)
    /\ Set(start(Service))
    /\ reply' = Reply("start", ~sched.is_running)
    /\ UNCHANGED tracker_vars

\* lines 72-99: a call of stop
Stop ==
    /\ Set(stop(Service))
    /\ reply' = Reply("stop", sched.is_running)
    /\ UNCHANGED tracker_vars

\* lines 128-165: a call of update_config
UpdateConfig(enabled, interval_minutes) ==
    /\ HasFreeSlot(Service) \/ sched.is_running
    /\ Set(update_config(Service, enabled, interval_minutes))
    /\ reply' = Reply("update_config", TRUE)
    /\ UNCHANGED tracker_vars

\* lines 171-186: a call of get_status
GetStatus ==
    /\ reply' = [Reply("get_status", TRUE) EXCEPT !.status = get_status(sched)]
    /\ UNCHANGED <<tracker_vars, sched, logs, now, sweep, run, nDispatch>>

\* mutant: get_logs trims the log to what it returns
GetLogs_Trims(limit) ==
    /\ reply' = [Reply("get_logs", TRUE) EXCEPT !.entries = get_logs(logs, limit)]
    /\ logs' = get_logs(logs, limit)
    /\ UNCHANGED <<tracker_vars, sched, now, sweep, run, nDispatch>>

\* lines 188-198: a call of get_logs
GetLogs(limit) ==
    /\ reply' = [Reply("get_logs", TRUE) EXCEPT !.entries = get_logs(logs, limit)]
    /\ UNCHANGED <<tracker_vars, sched, logs, now, sweep, run, nDispatch>>

\* lines 105-114: run_now calls _process_ready_issues
RunNow ==
    /\ HasFreeSlot(Service)
    /\ Set(BeginSweep(Service, FreeSlot(Service), "manual"))
    /\ UNCHANGED <<tracker_vars, reply>>

\* lines 211-217: the sleep is over
TimerFires(t) ==
    /\ sweep[t].kind = "timer"
    /\ sweep[t].pc = "sleep"
    /\ Set(IF sched.is_running
           THEN BeginSweep(Service, t, "timer")
           ELSE [Service EXCEPT !.sweep[t].pc = "done"])
    /\ UNCHANGED <<tracker_vars, reply>>

\* lines 255-259: the listing of the ready issues returns
ListReady(t) ==
    /\ sweep[t].pc = "list_ready"
    /\ \/ Set([Service EXCEPT
                !.sweep[t].issues = get_issues(GITHUB_ISSUE_LABEL, SweepLimit),
                !.sweep[t].pc = "list_approved"])
       \/ Set(SweepRaises(Service, t))
    /\ UNCHANGED <<tracker_vars, reply>>

\* lines 262-268: the listing of the approved issues returns
ListApproved(t) ==
    /\ sweep[t].pc = "list_approved"
    /\ \/ Set(Continue(Service, t,
                [sweep[t] EXCEPT !.all_issues =
                    sweep[t].issues
                        \o get_issues(GITHUB_APPROVED_LABEL, SweepLimit)]))
       \/ Set(SweepRaises(Service, t))
    /\ UNCHANGED <<tracker_vars, reply>>

\* lines 289-300: process_issue is over, the for loop goes on
ProcessReturned(t) ==
    /\ sweep[t].pc = "process"
    /\ run[t].pc = "done"
    /\ Set(Continue(Service, t, Returned(sweep[t], run[t])))
    /\ UNCHANGED <<tracker_vars, reply>>

SweepStep ==
    \/ \E t \in Tasks : ListReady(t)
    \/ \E t \in Tasks : ListApproved(t)
    \/ \E t \in Tasks : ProcessReturned(t)

(***************************************************************************)
(* One call of run_now on a repository with several issues.                *)
(***************************************************************************)
SweepIssues ==
    (1 :> {GITHUB_ISSUE_LABEL}) @@ (2 :> {GITHUB_ISSUE_LABEL})
        @@ (3 :> {GITHUB_ISSUE_LABEL}) @@ (4 :> {GITHUB_APPROVED_LABEL})
        @@ (5 :> {GITHUB_APPROVED_LABEL, GITHUB_WORKING_LABEL})

InitScheduler ==
    /\ human = 0
    /\ sched = NewScheduler
    /\ logs = <<>>
    /\ now = 0
    /\ sweep = [t \in Tasks |-> NoSweep]
    /\ reply = NoReply

SweepInit ==
    /\ labels = SweepIssues
    /\ comments = [n \in DOMAIN SweepIssues |-> <<>>]
    /\ prs = <<>>
    /\ git = CleanGit
    /\ run = [t \in Tasks |-> NoRun]
    /\ nDispatch = 0
    /\ labels0 = labels
    /\ http = NoHttp
    /\ InitScheduler

\* the first call of run_now
RunOnce ==
    /\ sched.total_runs = 0
    /\ RunNow

SweepNext ==
    \/ RunOnce
    \/ SweepStep
    \/ ProcessStep

SweepSpec == SweepInit /\ [][SweepNext]_vars

(***************************************************************************)
(* One SchedulerService on a repository with one issue, Ready or Approved. *)
(***************************************************************************)
SchedInit ==
    /\ Init
    /\ \A n \in IssueNumbers :
            labels[n] \in {{GITHUB_ISSUE_LABEL}, {GITHUB_APPROVED_LABEL}}

SchedNext ==
    \/ Within(MaxOps) /\ Start
    \/ Within(MaxOps) /\ Stop
    \/ Within(MaxOps) /\ \E e \in BOOLEAN, i \in Intervals : UpdateConfig(e, i)
    \/ Within(MaxOps) /\ \E t \in Tasks : TimerFires(t)
    \/ SweepStep
    \/ ProcessStep

SchedSpec == SchedInit /\ [][SchedNext]_vars

(***************************************************************************)
(* The control surface of one SchedulerService whose timer does not fire   *)
(* while it is observed: calls of start, stop, get_status and get_logs.    *)
(***************************************************************************)
ControlInit ==
    /\ Init
    /\ \A n \in IssueNumbers : labels[n] = {GITHUB_ISSUE_LABEL}

ControlNext ==
    \/ Within(MaxCalls) /\ Start
    \/ Within(MaxCalls) /\ Stop
    \/ Within(MaxCalls) /\ GetStatus
    \/ Within(MaxCalls) /\ \E l \in Limits : GetLogs(l)

ControlSpec == ControlInit /\ [][ControlNext]_vars

(***************************************************************************)
(* Vocabulary of the properties.                                           *)
(***************************************************************************)
\* the lifecycle state the precedence order derives from a label set
DerivedState(ls) ==
    IF GITHUB_WORKING_LABEL \in ls THEN "Working"
    ELSE IF GITHUB_APPROVED_LABEL \in ls THEN "Approved"
    ELSE IF GITHUB_PROPOSAL_LABEL \in ls THEN "ProposalPending"
    ELSE IF GITHUB_ISSUE_LABEL \in ls THEN "Ready"
    ELSE "Untracked"

\* the action the lifecycle table gives for a state
ActionOfState(st) ==
    CASE st = "Ready" -> "propose"
      [] st = "Approved" -> "implement"
      [] OTHER -> "none"

ProposePcs == {"analyze", "propose_comment", "add_proposal", "remove_ready"}

ImplementPcs ==
    {"create_branch", "implement", "has_changes", "commit", "push", "create_pr",
     "completion_comment", "remove_approved", "no_changes_comment",
     "remove_approved_nc"}

\* task t is executing the Propose or the Implement action
Acting(t) == run[t].pc \in ProposePcs \cup ImplementPcs

\* the run of task t is over
Done(t) == run[t].pc = "done"

\* the run of task t is over and returned a result to its caller
Succeeded(t) == Done(t) /\ run[t].outcome.status \notin {"none", "raised"}

\* the run of task t made no call with an effect
NoSideEffects(t) ==
    /\ run[t].calls.write = 0
    /\ run[t].calls.assistant = 0
    /\ run[t].calls.vcs = 0

\* task t made the only process_issue call so far
OnlyRun(t) == nDispatch = 1 /\ run[t].pc # "idle"

(***************************************************************************)
(* C1: at most one process execution per issue is active at a time: no two *)
(* calls for the same issue run Propose or Implement in parallel.  Stated  *)
(* for issues that started Ready or Approved.                              *)
(* Violated: two calls that both fetch the issue before either has added   *)
(* the working label both pass the check of line 49.                       *)
(***************************************************************************)
StartedReadyOrApproved(n) ==
    labels0[n] \in {{GITHUB_ISSUE_LABEL}, {GITHUB_APPROVED_LABEL}}

C1_AtMostOneActiveRun ==
    \A t, u \in Tasks :
        (t # u /\ Acting(t) /\ Acting(u) /\ StartedReadyOrApproved(run[t].issue))
            => run[t].issue # run[u].issue

(***************************************************************************)
(* C2: after every run that got as far as adding the working label, the    *)
(* working label is absent from the issue, also when calls failed.         *)
(* Stated for the only run of a behaviour, so that no other run can be the *)
(* one that set the label.  Violated: remove_label raises in the handler.  *)
(***************************************************************************)
C2_WorkingAbsentAfterRun ==
    \A t \in Tasks :
        (OnlyRun(t) /\ Done(t) /\ run[t].calls.write > 0)
            => GITHUB_WORKING_LABEL \notin labels[run[t].issue]

(***************************************************************************)
(* C3: process on an issue fetched in state ProposalPending takes no       *)
(* action: it returns without a label change, a comment or an assistant    *)
(* call.  Violated: line 61 sends every label set without the approved     *)
(* label to _analyze_and_propose.                                          *)
(***************************************************************************)
C3_ProposalPendingIsSkipped ==
    \A t \in Tasks :
        (run[t].fetched /\ DerivedState(run[t].labels) = "ProposalPending")
            => /\ NoSideEffects(t)
               /\ run[t].outcome.status # "proposal_created"

C5_UntrackedIsSkipped ==
    \A t \in Tasks :
        (run[t].fetched /\ DerivedState(run[t].labels) = "Untracked")
            => /\ NoSideEffects(t)
               /\ GITHUB_WORKING_LABEL \notin labels[run[t].issue] \/ nDispatch > 1

(***************************************************************************)
(* C6: the action a run executes is the action of the state that the       *)
(* precedence order derives from the fetched labels: a run is in Propose   *)
(* only for Ready, in Implement only for Approved, and has returned        *)
(* without effect for Working, ProposalPending and Untracked.              *)
(* Violated for ProposalPending and Untracked, which run Propose.          *)
(***************************************************************************)
C6_ActionFollowsDerivedState ==
    \A t \in Tasks :
        run[t].fetched =>
            LET act == ActionOfState(DerivedState(run[t].labels))
            IN  /\ run[t].pc \in ProposePcs => act = "propose"
                /\ run[t].pc \in ImplementPcs => act = "implement"
                /\ act = "none" => NoSideEffects(t)

(***************************************************************************)
(* C7 as stated: an issue that started with at most one marker never       *)
(* carries more than one of proposal-pending, approved, working.  Stated   *)
(* for issues that started Ready or Approved and behaviours of one run.    *)
(* Violated inside every run: the working label is added on top of the     *)
(* marker that selected the run.                                           *)
(***************************************************************************)
AtMostOneMarkerAtStart(n) == Cardinality(labels0[n] \cap Markers) <= 1

C7_AtMostOneOfThree ==
    \A n \in IssueNumbers :
        (AtMostOneMarkerAtStart(n) /\ StartedReadyOrApproved(n) /\ nDispatch <= 1) =>
            Cardinality(labels[n] \cap {GITHUB_PROPOSAL_LABEL, GITHUB_APPROVED_LABEL,
                                        GITHUB_WORKING_LABEL}) <= 1

(***************************************************************************)
(* C7 as amended: an issue that started with at most one marker never      *)
(* carries proposal-pending and approved together; the working label may   *)
(* be present beside either of them.                                       *)
(***************************************************************************)
C7_ProposalAndApprovedExclusive ==
    \A n \in IssueNumbers :
        AtMostOneMarkerAtStart(n) =>
            ~({GITHUB_PROPOSAL_LABEL, GITHUB_APPROVED_LABEL} \subseteq labels[n])

C7_Witness ==
    \E t \in Tasks :
        /\ run[t].pc = "remove_ready"
        /\ AtMostOneMarkerAtStart(run[t].issue)
        /\ {GITHUB_PROPOSAL_LABEL, GITHUB_WORKING_LABEL} \subseteq labels[run[t].issue]

(***************************************************************************)
(* C8: the only run, on an issue that started with exactly {ready}, when   *)
(* it succeeds: one comment, the proposal comment with the assistant's     *)
(* text; labels exactly {proposal-pending}; no pull request, no VCS call,  *)
(* working copy untouched; result proposal_created with that text.         *)
(***************************************************************************)
C8_ProposeScenario ==
    \A t \in Tasks :
        (OnlyRun(t) /\ Succeeded(t)
                    /\ labels0[run[t].issue] = {GITHUB_ISSUE_LABEL})
            => /\ run[t].text \in Texts("analyze")
               /\ comments[run[t].issue] = <<ProposalComment(run[t].text)>>
               /\ comments[run[t].issue][1].kind = "proposal"
               /\ comments[run[t].issue][1].text = run[t].text
               /\ labels[run[t].issue] = {GITHUB_PROPOSAL_LABEL}
               /\ prs = <<>>
               /\ run[t].calls.vcs = 0
               /\ git = CleanGit
               /\ run[t].outcome = ProposalCreated(run[t].text)
               /\ run[t].outcome.status = "proposal_created"

C8_Witness ==
    \E t \in Tasks :
        /\ OnlyRun(t)
        /\ Succeeded(t)
        /\ labels0[run[t].issue] = {GITHUB_ISSUE_LABEL}

(***************************************************************************)
(* C9: the only run, on an issue that started with exactly {approved},     *)
(* when it succeeds and has_changes() returned False: one comment, the     *)
(* no-changes comment; labels empty; no commit, no push, no pull request;  *)
(* result no_changes.                                                      *)
(***************************************************************************)
C9_NoChangesScenario ==
    \A t \in Tasks :
        (OnlyRun(t) /\ Succeeded(t)
                    /\ labels0[run[t].issue] = {GITHUB_APPROVED_LABEL}
                    /\ ~run[t].has_changes)
            => /\ Len(comments[run[t].issue]) = 1
               /\ comments[run[t].issue][1].kind = "no_changes"
               /\ labels[run[t].issue] = {}
               /\ git.commits = <<>>
               /\ git.pushed = <<>>
               /\ prs = <<>>
               /\ run[t].outcome.status = "no_changes"

C9_Witness ==
    \E t \in Tasks :
        /\ OnlyRun(t)
        /\ Succeeded(t)
        /\ labels0[run[t].issue] = {GITHUB_APPROVED_LABEL}
        /\ ~run[t].has_changes

(***************************************************************************)
(* C10: the only run, on an issue that started with exactly {approved},    *)
(* when it succeeds and has_changes() returned True: the branch prefix +   *)
(* issue number exists, one commit (on that branch), one push (of that     *)
(* branch), one pull request with that branch as head and referencing the  *)
(* issue, one comment, the completion comment with the pull request's URL, *)
(* the approved label removed, result implemented with that URL.           *)
(***************************************************************************)
C10_ImplementScenario ==
    \A t \in Tasks :
        (OnlyRun(t) /\ Succeeded(t)
                    /\ labels0[run[t].issue] = {GITHUB_APPROVED_LABEL}
                    /\ run[t].has_changes)
            => LET n == run[t].issue
                   b == <<GIT_BRANCH_PREFIX, n>>
               IN  /\ git.branches = {b}
                   /\ Len(git.commits) = 1
                   /\ git.commits[1].branch = b
                   /\ git.pushed = <<b>>
                   /\ Len(prs) = 1
                   /\ prs[1].head = b
                   /\ prs[1].resolves = n
                   /\ Len(comments[n]) = 1
                   /\ comments[n][1].kind = "completion"
                   /\ comments[n][1].url = prs[1].html_url
                   /\ GITHUB_APPROVED_LABEL \notin labels[n]
                   /\ run[t].outcome.status = "implemented"
                   /\ run[t].outcome.url = prs[1].html_url

C10_Witness ==
    \E t \in Tasks :
        /\ OnlyRun(t)
        /\ Succeeded(t)
        /\ labels0[run[t].issue] = {GITHUB_APPROVED_LABEL}
        /\ run[t].has_changes

\* the error comments posted on issue n
ErrorComments(n) == SelectSeq(comments[n], LAMBDA c : c.kind = "error")

\* a call of the run of task t failed
Failed(t) == run[t].err # ""

(***************************************************************************)
(* C12: every failure inside a run (of the fetch, a label call, a comment, *)
(* the assistant, the VCS) ends in exactly one error comment on the issue  *)
(* and in a failure reported to the caller.  Stated for the only run of a  *)
(* behaviour, on an issue that started Ready or Approved.  Violated: a     *)
(* failure of get_issue (line 41) or of the add_label of line 54 is        *)
(* outside the inner try, and a failure of the handler's own remove_label  *)
(* (line 73) or add_comment (line 77) leaves the handler; each of them     *)
(* ends the run with no error comment.                                     *)
(***************************************************************************)
C12_ExactlyOneErrorComment ==
    \A t \in Tasks :
        (OnlyRun(t) /\ Done(t) /\ Failed(t)
                    /\ StartedReadyOrApproved(run[t].issue))
            => /\ run[t].outcome.status = "raised"
               /\ Len(ErrorComments(run[t].issue)) = 1

(***************************************************************************)
(* C13: when the assistant call of the only run fails and every tracker    *)
(* call succeeds, the run ends with the failure reported to its caller,    *)
(* the working label removed, exactly one comment, the error comment       *)
(* (which is not a proposal comment), the labels as they were at the       *)
(* start (no proposal-pending label added), no commit, no push and no      *)
(* pull request.  A failed call of the handler replaces the run's error,   *)
(* so a finished run whose error is the assistant's had no failed tracker  *)
(* call.                                                                   *)
(***************************************************************************)
AssistantFailed(t) == Done(t) /\ run[t].err = "Gemini CLI error"

C13_AssistantFailure ==
    \A t \in Tasks :
        (OnlyRun(t) /\ AssistantFailed(t))
            => LET n == run[t].issue
               IN  /\ run[t].outcome.status = "raised"
                   /\ GITHUB_WORKING_LABEL \notin labels[n]
                   /\ comments[n] = <<ErrorComment("Gemini CLI error")>>
                   /\ ErrorComment("Gemini CLI error").kind # "proposal"
                   /\ labels[n] = labels0[n]
                   /\ git.commits = <<>>
                   /\ git.pushed = <<>>
                   /\ prs = <<>>

\* the assistant failed in Propose and in Implement
C13_Witness ==
    \E t \in Tasks :
        /\ OnlyRun(t)
        /\ AssistantFailed(t)
        /\ run[t].calls.assistant = 1
        /\ labels0[run[t].issue] \in {{GITHUB_ISSUE_LABEL}, {GITHUB_APPROVED_LABEL}}

(***************************************************************************)
(* C11: the round trip.  On an issue that started with exactly {ready}:    *)
(* when the first run succeeded with a proposal, the maintainer replaced   *)
(* proposal-pending by approved (once), and the second run succeeded with  *)
(* an implementation whose has_changes() returned True, the issue carries  *)
(* none of ready, proposal-pending, approved, working, and exactly one     *)
(* pull request exists.                                                    *)
(***************************************************************************)
RoundTripDone(n) ==
    /\ labels0[n] = {GITHUB_ISSUE_LABEL}
    /\ nDispatch = 2
    /\ human = 1
    /\ run[1].issue = n /\ Succeeded(1)
    /\ run[1].outcome.status = "proposal_created"
    /\ run[2].issue = n /\ Succeeded(2)
    /\ run[2].outcome.status = "implemented"
    /\ run[2].has_changes

C11_RoundTrip ==
    \A n \in IssueNumbers :
        RoundTripDone(n) => /\ labels[n] \cap Markers = {}
                            /\ Len(prs) = 1

C11_Witness == \E n \in IssueNumbers : RoundTripDone(n)

(***************************************************************************)
(* Vocabulary of the scheduler's properties.                               *)
(***************************************************************************)
\* the issue numbers of a listing
Numbers(listing) == [i \in 1..Len(listing) |-> listing[i].number]

\* the issues that carried label l at the start, newest first
Listed0(l) == NewestFirst({n \in DOMAIN labels0 : l \in labels0[n]})

\* the entries of a listing that were listed without the working label
NotWorking(listing) ==
    SelectSeq(listing, LAMBDA i : GITHUB_WORKING_LABEL \notin i.labels)

\* the sweep of slot t is a call of run_now that has returned
ManualDone(t) == sweep[t].kind = "manual" /\ sweep[t].pc = "done"

\* slot t holds the timer loop, which has not ended
TimerLive(t) ==
    /\ sweep[t].kind = "timer"
    /\ sweep[t].pc \in {"sleep", "list_ready", "list_approved", "process"}

\* the timer loop of slot t is inside _process_ready_issues
TimerSweeping(t) ==
    /\ sweep[t].kind = "timer"
    /\ sweep[t].pc \in {"list_ready", "list_approved", "process"}

\* the run of slot t is suspended in a gateway call
InFlight(t) == run[t].pc \notin {"idle", "done", "cancelled"}

\* this step is the return of a call of method op
Returns(op) == reply'.seq # reply.seq /\ reply'.op = op

(***************************************************************************)
(* C14: a sweep lists the open issues with the ready label and those with  *)
(* the approved label, merges the two listings, and calls process_issue    *)
(* for exactly the listed issues that were listed without the working      *)
(* label, in the order listed.  With three {ready} issues, one {approved}  *)
(* issue and one {approved, working} issue that is four calls, none for    *)
(* the issue that carries the working label.                               *)
(***************************************************************************)
C14_SweepDispatch ==
    \A t \in Tasks :
        ManualDone(t)
            => /\ Numbers(sweep[t].all_issues)
                    = Listed0(GITHUB_ISSUE_LABEL) \o Listed0(GITHUB_APPROVED_LABEL)
               /\ sweep[t].called = Numbers(NotWorking(sweep[t].all_issues))
               /\ nDispatch = Len(sweep[t].called)
               /\ labels0 = SweepIssues
                    => /\ Len(sweep[t].called) = 4
                       /\ \A i \in 1..4 : sweep[t].called[i] # 5

C14_Witness ==
    \E t \in Tasks :
        /\ ManualDone(t)
        /\ Len(sweep[t].all_issues) = 5
        /\ labels0 = SweepIssues
        /\ sweep[t].issues_processed = 4

(***************************************************************************)
(* C15: stop never aborts a run of process_issue that is in flight: a run  *)
(* that has added the working label and is suspended in a gateway call     *)
(* when stop is called is left as it is (and so can go on to remove the    *)
(* label).  Violated: the timer sweep runs process_issue inside the loop   *)
(* task (lines 217 and 289), which stop cancels (line 91); the run ends at *)
(* its await, and the working label it added stays on the issue.           *)
(***************************************************************************)
C15_StopKeepsRuns ==
    [][Returns("stop")
        => \A t \in Tasks :
                (InFlight(t) /\ run[t].calls.write > 0) => run'[t] = run[t]]_vars

(***************************************************************************)
(* C16: the sweeps of the timer loop are serial.  At most one timer loop   *)
(* is alive; a sweep of the loop begins only from its completed wait, and  *)
(* only while no other timer sweep is in progress; a wait of the loop      *)
(* begins only when the loop starts or when its sweep is over.             *)
(***************************************************************************)
TimerSweepBegins(t) ==
    /\ TimerSweeping(t)'
    /\ sweep'[t].pc = "list_ready"
    /\ sched'.total_runs = sched.total_runs + 1

TimerWaitBegins(t) ==
    /\ sweep'[t].kind = "timer"
    /\ sweep'[t].pc = "sleep"
    /\ sweep'[t] # sweep[t]

C16_TimerSweepsSerial ==
    /\ [](\A t, u \in Tasks : TimerLive(t) /\ TimerLive(u) => t = u)
    /\ [][\A t \in Tasks :
            /\ TimerSweepBegins(t)
                => /\ sweep[t].kind = "timer"
                   /\ sweep[t].pc = "sleep"
                   /\ \A u \in Tasks : ~TimerSweeping(u)
            /\ TimerWaitBegins(t)
                => \/ TimerSweeping(t)
                   \/ Returns("start")
                   \/ Returns("update_config")]_vars

\* the second sweep of a timer loop has begun
C16_Witness ==
    \E t \in Tasks :
        /\ TimerSweeping(t)
        /\ sched.total_runs = 2
        /\ sched.last_run = <<2>>
        /\ \E i \in 1..Len(logs) : logs[i].message = "Scheduled run completed"

(***************************************************************************)
(* C17: the run log holds at most max_logs (100) entries, in insertion     *)
(* order; an entry added to a full log evicts the oldest one and is        *)
(* itself retained.  With entries stamped by a clock that ticks at every   *)
(* entry: the log holds exactly the last min(now, max_logs) entries ever   *)
(* added, oldest first.                                                    *)
(***************************************************************************)
C17_LogBounded ==
    /\ Len(logs) <= max_logs
    /\ Len(logs) = IF now < max_logs THEN now ELSE max_logs
    /\ \A i \in 1..Len(logs) : logs[i].timestamp = now - Len(logs) + i - 1

\* entries have been evicted from a full log
C17_Witness ==
    /\ Len(logs) = max_logs
    /\ logs[1].timestamp > 0
    /\ logs[max_logs].timestamp = now - 1

(***************************************************************************)
(* C18: get_status and get_logs (with any limit: negative, zero, below and *)
(* above the number of entries) change nothing of the scheduler: not       *)
(* is_running, the task, enabled, the interval, last_run, next_run, the    *)
(* counters, the log, nor a coroutine.                                     *)
(***************************************************************************)
C18_ReadsChangeNothing ==
    [][(Returns("get_status") \/ Returns("get_logs"))
        => UNCHANGED <<sched, logs, now, sweep, run>>]_vars

\* get_logs has returned fewer entries than the log of a running scheduler
\* holds
C18_Witness ==
    /\ reply.op = "get_logs"
    /\ reply.entries # <<>>
    /\ Len(reply.entries) < Len(logs)
    /\ sched.is_running

(***************************************************************************)
(* C19: update_config on a scheduler that is running and stays running     *)
(* takes effect on the next tick: it does not cancel or restart the        *)
(* pending wait of the timer loop and does not abort its sweep in          *)
(* progress; the loop and the run it awaits are left as they are.          *)
(* Violated: when the interval changes, lines 154-156 call stop and then   *)
(* start, which cancels the loop task at its await and creates a new one.  *)
(***************************************************************************)
C19_UpdateKeepsLoop ==
    [][(Returns("update_config") /\ sched.is_running /\ sched'.is_running)
        => \A t \in Tasks :
                TimerLive(t) => sweep'[t] = sweep[t] /\ run'[t] = run[t]]_vars

(***************************************************************************)
(* C20: runs for distinct issues never block one another: while the run a  *)
(* sweep has called for issue A is suspended in a gateway call, the sweep  *)
(* is free to call process_issue for the next listed issue B.  Violated:   *)
(* line 289 awaits each process_issue call, so the for loop reaches B only *)
(* when the run for A is over.                                             *)
(***************************************************************************)
Blocked(t) ==
    /\ sweep[t].pc = "process"
    /\ InFlight(t)
    /\ LET k == NextIssue(sweep[t].all_issues, sweep[t].pos)
       IN  k # 0 /\ sweep[t].all_issues[k].number # run[t].issue

C20_NoCrossIssueBlocking == \A t \in Tasks : ~Blocked(t)

(***************************************************************************)
(* Two issues and one working copy: GitService runs every git command in   *)
(* the current directory of the process (git_service.py line 25), so the   *)
(* runs of all issues share `git`.  At most one call is made per issue.    *)
(***************************************************************************)
PairNumbers == {7, 8}

PairInit ==
    /\ labels \in [PairNumbers -> {{GITHUB_ISSUE_LABEL}, {GITHUB_APPROVED_LABEL}}]
    /\ comments = [n \in PairNumbers |-> <<>>]
    /\ prs = <<>>
    /\ git = CleanGit
    /\ run = [t \in Tasks |-> NoRun]
    /\ nDispatch = 0
    /\ labels0 = labels
    /\ http = NoHttp
    /\ InitScheduler

\* a call of process_issue for an issue no earlier call was made for
DispatchOther(t, n) ==
    /\ \A u \in Tasks : run[u].issue # n
    /\ Dispatch(t, n)

PairNext ==
    \/ \E t \in Tasks, n \in PairNumbers : DispatchOther(t, n)
    \/ ProcessStep

PairSpec == PairInit /\ [][PairNext]_vars

\* the issue whose branch b is
IssueOfBranch(b) == IF Len(b) = 2 THEN b[2] ELSE 0

(***************************************************************************)
(* C21: concurrent Implement runs for two different issues do not          *)
(* interfere through the working copy: the changes produced for an issue   *)
(* are committed on the branch of that issue only, and no run's            *)
(* uncommitted changes are stashed by another run.  Stated for runs none   *)
(* of which has met a failing call.                                        *)
(* Violated: the runs share one working copy.  Run B's create_branch       *)
(* stashes the changes run A has not committed yet and checks out B's      *)
(* branch, and `git add .` of either run commits whatever is in the        *)
(* working copy on whichever branch is checked out.                        *)
(***************************************************************************)
C21_WorkingCopyIsolated ==
    (\A t \in Tasks : ~Failed(t)) =>
        /\ git.stash = <<>>
        /\ \A i \in DOMAIN git.commits :
              git.commits[i].changes = {IssueOfBranch(git.commits[i].branch)}

(***************************************************************************)
(* Direct calls of GitHubService.remove_label (github_service.py lines     *)
(* 166-192) on an issue with any label set.                                *)
(***************************************************************************)
MaxRequests == 3

\* the tracker's answer to DELETE .../labels/{label} (lines 176-179): done,
\* not found when the issue does not carry the label, or a server error
delete_label_status(ls, l, fault) ==
    IF fault THEN 500 ELSE IF l \in ls THEN 200 ELSE 404

\* mutant: only 200 and 204 are accepted
remove_label_raises_NotFound(status) ==
    status >= 400 /\ status \notin {200, 204}

\* lines 181-182 and 186-189: raise_for_status for a status outside
\* [200, 204, 404]; the handler re-raises unless the status is 404
remove_label_raises(status) ==
    status >= 400 /\ status \notin {200, 204, 404}

RemoveLabel(n, l) ==
    /\ http.seq < MaxRequests
    /\ \E fault \in BOOLEAN :
         LET status == delete_label_status(labels[n], l, fault) IN
            /\ http' = [seq |-> http.seq + 1, op |-> "remove_label",
                        label |-> l, status |-> status,
                        raised |-> remove_label_raises(status)]
            /\ labels' = [labels EXCEPT ![n] =
                            IF status = 200 THEN remove_label(@, l) ELSE @]
    /\ UNCHANGED <<comments, prs, git, run, nDispatch, labels0, human,
                   scheduler_vars>>

LabelNext == \E n \in IssueNumbers, l \in Markers : RemoveLabel(n, l)

LabelSpec == Init /\ [][LabelNext]_vars

(***************************************************************************)
(* C22: remove_label is idempotent.  A call for a label the issue does not *)
(* carry (the tracker answers 404) does not raise and leaves the label set *)
(* unchanged; after a call that returned the issue does not carry the      *)
(* label; a call that follows a call for the same label that returned      *)
(* leaves the label set as the first call left it, and returns as well     *)
(* unless the tracker fails.                                               *)
(***************************************************************************)
C22_RemoveLabelIdempotent ==
    [][http'.seq # http.seq =>
          /\ http'.status = 404 => ~http'.raised /\ labels' = labels
          /\ ~http'.raised => \A n \in IssueNumbers : http'.label \notin labels'[n]
          /\ (/\ http.op = "remove_label"
              /\ ~http.raised
              /\ http'.label = http.label
              /\ http'.status # 500)
                => ~http'.raised /\ labels' = labels]_vars

\* a label the issue carried has been removed twice, and both calls returned
C22_Witness ==
    /\ http.seq = 2
    /\ http.status = 404
    /\ ~http.raised
    /\ \E n \in IssueNumbers :
            http.label \in labels0[n] /\ http.label \notin labels[n]

(***************************************************************************)
(* One SchedulerService whose timer loop sweeps a repository with two      *)
(* issues, one Ready and one Approved: calls of start and stop, and the    *)
(* loop.                                                                   *)
(***************************************************************************)
TimerIssues == (7 :> {GITHUB_ISSUE_LABEL}) @@ (8 :> {GITHUB_APPROVED_LABEL})

TimerInit ==
    /\ labels = TimerIssues
    /\ comments = [n \in DOMAIN TimerIssues |-> <<>>]
    /\ prs = <<>>
    /\ git = CleanGit
    /\ run = [t \in Tasks |-> NoRun]
    /\ nDispatch = 0
    /\ labels0 = labels
    /\ http = NoHttp
    /\ InitScheduler

MaxTimerOps == 3

TimerNext ==
    \/ Within(MaxTimerOps) /\ Start
    \/ Within(MaxTimerOps) /\ Stop
    \/ Within(MaxTimerOps) /\ \E t \in Tasks : TimerFires(t)
    \/ SweepStep
    \/ ProcessStep

TimerSpec == TimerInit /\ [][TimerNext]_vars

InSweep == {"list_ready", "list_approved", "process"}

\* the coroutine of slot t is inside _process_ready_issues
Sweeping(t) == sweep[t].pc \in InSweep

\* a sweep begins in slot t
SweepBegins(t) == sweep'[t].pc = "list_ready" /\ sweep[t].pc # "list_ready"

\* the sweep of slot t is over after the step
SweepEnds(t) == Sweeping(t) /\ sweep'[t].pc \notin InSweep

\* the process_issue call of the sweep of slot t is over, and its result is
\* neither an error nor already_processing
RunCounts(t) ==
    /\ sweep[t].pc = "process"
    /\ run[t].pc = "done"
    /\ run[t].outcome.status \notin {"raised", "already_processing"}

\* the process runs of the sweep of slot t that have completed without
\* error and without being skipped, when the step has been made: those
\* counted before, and the one that returns to the sweep in this step
Completed(t) ==
    sweep[t].issues_processed +
        (IF /\ RunCounts(t)
            /\ sweep'[t] # sweep[t]
            /\ sweep'[t].pc # "cancelled"
         THEN 1 ELSE 0)

(***************************************************************************)
(* C23: the aggregate counters never decrease; total_runs grows by one in  *)
(* a step in which a sweep begins and in no other step; issues_processed   *)
(* grows, in the step in which a sweep ends, by the number of process runs *)
(* of that sweep that completed without error and without being skipped,   *)
(* and in no other step; while a sweep goes on it counts exactly these     *)
(* runs.                                                                   *)
(* Violated: a sweep adds its count to the statistics only after its for   *)
(* loop (line 303).  stop() cancels the loop task inside the sweep (C15),  *)
(* and the runs the sweep had completed are never counted.                 *)
(***************************************************************************)
C23_CountersExact ==
    [][/\ sched'.total_runs =
            sched.total_runs + (IF \E t \in Tasks : SweepBegins(t) THEN 1 ELSE 0)
       /\ \A t \in Tasks :
            Sweeping(t) /\ sweep'[t].pc \in InSweep =>
                sweep'[t].issues_processed = Completed(t)
       /\ IF \E t \in Tasks : SweepEnds(t)
          THEN \E t \in Tasks :
                    /\ SweepEnds(t)
                    /\ sched'.issues_processed =
                            sched.issues_processed + Completed(t)
          ELSE sched'.issues_processed = sched.issues_processed]_vars

\* the same, for the steps that are not calls of stop
C23_CountersExactUnlessStopped ==
    [][sched'.is_running \/ ~sched.is_running => C23_CountersExact!1]_vars

(***************************************************************************)
(* C24: a tracker failure during the label or comment bookkeeping that     *)
(* follows a completed core action is only logged: when the only run of an *)
(* issue has opened the pull request, the run ends with the result         *)
(* implemented, the pull request stays, and no error comment is posted.    *)
(* Violated: the completion comment and the label removals that follow the *)
(* pull request are inside the inner try of process_issue; a failure of    *)
(* one of them reaches the handler of line 71, which posts an error        *)
(* comment and re-raises.                                                  *)
(***************************************************************************)
C24_BookkeepingFailureOnlyLogged ==
    \A t \in Tasks :
        OnlyRun(t) /\ Done(t) /\ run[t].url # <<>> =>
            /\ run[t].outcome.status = "implemented"
            /\ ErrorComments(run[t].issue) = <<>>
            /\ \E i \in DOMAIN prs : prs[i].html_url = run[t].url

(***************************************************************************)
(* One call of run_now on a repository whose issue carries the ready and   *)
(* the approved label: both listings return it, so the sweep calls         *)
(* process_issue for it twice, and the first run changes its labels before *)
(* the second run fetches them.                                            *)
(***************************************************************************)
RelistedInit ==
    /\ Init
    /\ \A n \in IssueNumbers :
            labels[n] = {GITHUB_ISSUE_LABEL, GITHUB_APPROVED_LABEL}

RelistedSpec == RelistedInit /\ [][SweepNext]_vars

\* the labels the sweep of slot t listed for the issue it is processing
ListedLabels(t) == sweep[t].all_issues[sweep[t].pos].labels

(***************************************************************************)
(* C25: every process run decides on the label set it fetched at its own   *)
(* start.  The labels a run holds are those the tracker has at the step of *)
(* its fetch, whatever the listing of the sweep said; the run returns      *)
(* early exactly when these carry the working label, and it enters         *)
(* Implement exactly when these carry the approved label, and Propose      *)
(* otherwise.                                                              *)
(***************************************************************************)
C25_DecidesOnFetchedLabels ==
    [][\A t \in Tasks :
          /\ run[t].pc = "get_issue" /\ run'[t].fetched =>
                /\ run'[t].labels = labels[run[t].issue]
                /\ (run'[t].pc = "done") =
                        (GITHUB_WORKING_LABEL \in labels[run[t].issue])
          /\ run[t].pc = "add_working" /\ run'[t].pc \in ImplementPcs =>
                GITHUB_APPROVED_LABEL \in run[t].labels
          /\ run[t].pc = "add_working" /\ run'[t].pc \in ProposePcs =>
                GITHUB_APPROVED_LABEL \notin run[t].labels]_vars

\* the listing said approved, the run fetched labels without it and proposes
C25_Witness ==
    \E t \in Tasks :
        /\ sweep[t].pc = "process"
        /\ GITHUB_APPROVED_LABEL \in ListedLabels(t)
        /\ run[t].fetched
        /\ run[t].labels # ListedLabels(t)
        /\ run[t].pc \in ProposePcs

\* issue n started with the approved and the proposal-pending label, and
\* without the working label
ApprovedAndPending(n) ==
    /\ {GITHUB_APPROVED_LABEL, GITHUB_PROPOSAL_LABEL} \subseteq labels0[n]
    /\ GITHUB_WORKING_LABEL \notin labels0[n]

(***************************************************************************)
(* C26: for an issue that carries both the approved and the                *)
(* proposal-pending label, and not the working label, the only run never   *)
(* enters Propose and never removes the proposal-pending label; when it    *)
(* has succeeded it has run Implement, and the label set is the original   *)
(* one minus approved.                                                     *)
(***************************************************************************)
C26_ApprovedWinsPendingStays ==
    \A t \in Tasks :
        OnlyRun(t) /\ ApprovedAndPending(run[t].issue) =>
            /\ run[t].pc \notin ProposePcs
            /\ GITHUB_PROPOSAL_LABEL \in labels[run[t].issue]
            /\ Succeeded(t) =>
                /\ run[t].outcome.status \in {"implemented", "no_changes"}
                /\ labels[run[t].issue] =
                        labels0[run[t].issue] \ {GITHUB_APPROVED_LABEL}

\* the only run of an issue with exactly these two labels opened a pull
\* request and returned
C26_Witness ==
    \E t \in Tasks :
        /\ OnlyRun(t)
        /\ labels0[run[t].issue] = {GITHUB_APPROVED_LABEL, GITHUB_PROPOSAL_LABEL}
        /\ Succeeded(t)
        /\ run[t].outcome.status = "implemented"
        /\ labels[run[t].issue] = {GITHUB_PROPOSAL_LABEL}

(***************************************************************************)
(* refine_proposal (issue_processor.py lines 260-322): calls of it for an  *)
(* issue with any label set.  A call uses a frame of `run`; every failure  *)
(* is logged and re-raised (lines 320-322).                                *)
(***************************************************************************)
\* lines 289-304: the refined-proposal comment
RefinedComment(refined) == [kind |-> "refined", text |-> refined, url |-> <<>>]

\* lines 314-318
ProposalRefined(refined) ==
    [NoResult EXCEPT !.status = "proposal_refined", !.text = refined]

\* a caller calls refine_proposal(n, feedback)
CallRefine(t, n) ==
    /\ Free(t)
    /\ \A u \in Tasks : Free(u) => t <= u
    /\ nDispatch < MaxDispatch
    /\ run' = [run EXCEPT ![t] = [NoRun EXCEPT !.pc = "refine_get_issue",
                                               !.issue = n]]
    /\ nDispatch' = nDispatch + 1
    /\ UNCHANGED <<labels, comments, prs, git, labels0, human, http, scheduler_vars>>

\* line 275: fetch the issue
RefineGetIssue(t) ==
    /\ run[t].pc = "refine_get_issue"
    /\ \/ run' = [run EXCEPT ![t] =
                    [Step(t, "get_issue", "refine") EXCEPT
                        !.fetched = TRUE, !.labels = issue_labels(t)]]
       \/ run' = [run EXCEPT ![t] = Propagate(t, "get_issue", "GitHub API error")]
    /\ UNCHANGED <<labels, comments, prs, git, nDispatch, labels0, human, http, scheduler_vars>>

\* lines 284-286: gemini_service.refine_proposal
Refine(t) ==
    /\ run[t].pc = "refine"
    /\ \/ \E refined \in Texts("refine") :
            run' = [run EXCEPT ![t] =
                      [Step(t, "refine_proposal", "refined_comment") EXCEPT
                            !.text = refined]]
       \/ run' = [run EXCEPT ![t] =
                    Propagate(t, "refine_proposal", "Gemini CLI error")]
    /\ UNCHANGED <<labels, comments, prs, git, nDispatch, labels0, human, http, scheduler_vars>>

\* line 307: post the refined-proposal comment
PostRefined(t) ==
    /\ run[t].pc = "refined_comment"
    /\ \/ /\ comments' = [comments EXCEPT ![run[t].issue] =
                            add_comment(@, RefinedComment(run[t].text))]
          /\ run' = [run EXCEPT ![t] = Step(t, "add_comment", "readd_proposal")]
       \/ /\ run' = [run EXCEPT ![t] =
                        Propagate(t, "add_comment", "GitHub API error")]
          /\ UNCHANGED comments
    /\ UNCHANGED <<labels, prs, git, nDispatch, labels0, human, http, scheduler_vars>>

\* mutant: the call removes the approved label as well
ReaddProposal_ResetsApproval(t) ==
    /\ run[t].pc = "readd_proposal"
    /\ labels' = [labels EXCEPT ![run[t].issue] =
                    remove_label(add_label(@, GITHUB_PROPOSAL_LABEL),
                                 GITHUB_APPROVED_LABEL)]
    /\ run' = [run EXCEPT ![t] =
                  [Step(t, "add_label_proposal", "done") EXCEPT
                        !.outcome = ProposalRefined(run[t].text)]]
    /\ UNCHANGED <<comments, prs, git, nDispatch, labels0, human, http, scheduler_vars>>

\* line 310: add the proposal-pending label again; lines 314-318: return
ReaddProposal(t) ==
    /\ run[t].pc = "readd_proposal"
    /\ \/ /\ labels' = [labels EXCEPT ![run[t].issue] =
                            add_label(@, GITHUB_PROPOSAL_LABEL)]
          /\ run' = [run EXCEPT ![t] =
                        [Step(t, "add_label_proposal", "done") EXCEPT
                            !.outcome = ProposalRefined(run[t].text)]]
       \/ /\ run' = [run EXCEPT ![t] =
                        Propagate(t, "add_label_proposal", "GitHub API error")]
          /\ UNCHANGED labels
    /\ UNCHANGED <<comments, prs, git, nDispatch, labels0, human, http, scheduler_vars>>

RefineStep ==
    \/ \E t \in Tasks : RefineGetIssue(t)
    \/ \E t \in Tasks : Refine(t)
    \/ \E t \in Tasks : PostRefined(t)
    \/ \E t \in Tasks : ReaddProposal(t)

RefineNext ==
    \/ \E t \in Tasks, n \in IssueNumbers : CallRefine(t, n)
    \/ RefineStep

RefineSpec == Init /\ [][RefineNext]_vars

(***************************************************************************)
(* C27: a successful Refine posts exactly one refined-proposal comment,    *)
(* leaves the proposal-pending label on the issue, adds and removes no     *)
(* other label (the working label included) at any moment, and returns     *)
(* proposal_refined.  Stated for the only Refine call made on the issue;   *)
(* the labels are untouched until the last call, whatever the number of    *)
(* calls.                                                                  *)
(***************************************************************************)
C27_RefineFrame ==
    /\ \A n \in IssueNumbers :
            /\ labels0[n] \subseteq labels[n]
            /\ labels[n] \subseteq labels0[n] \cup {GITHUB_PROPOSAL_LABEL}
    /\ \A t \in Tasks :
            OnlyRun(t) /\ Succeeded(t) =>
                /\ run[t].outcome = ProposalRefined(run[t].text)
                /\ comments[run[t].issue] = <<RefinedComment(run[t].text)>>
                /\ labels[run[t].issue] =
                        labels0[run[t].issue] \cup {GITHUB_PROPOSAL_LABEL}
                /\ prs = <<>>
                /\ git = CleanGit

\* a Refine call on an issue that carried the proposal-pending label and
\* another one has returned
C27_Witness ==
    \E t \in Tasks :
        /\ OnlyRun(t)
        /\ Succeeded(t)
        /\ run[t].outcome.status = "proposal_refined"
        /\ labels0[run[t].issue] = {GITHUB_PROPOSAL_LABEL, GITHUB_ISSUE_LABEL}
        /\ labels[run[t].issue] = labels0[run[t].issue]

\* the process_issue call of the sweep of slot t raised, and the sweep
\* takes its next step
FailedRunReturns(t) ==
    /\ sweep[t].pc = "process"
    /\ run[t].pc = "done"
    /\ run[t].outcome.status = "raised"
    /\ sweep'[t] # sweep[t]
    /\ sweep'[t].pc # "cancelled"

\* the sweep of the timer loop of slot t is over, and not by a cancellation
TimerSweepEnds(t) ==
    /\ sweep[t].kind = "timer"
    /\ SweepEnds(t)
    /\ sweep'[t].pc # "cancelled"

(***************************************************************************)
(* C28: a gateway failure is never fatal to the scheduler.  When a process *)
(* run of a sweep has raised and listed issues remain, the sweep calls     *)
(* process_issue for the next of them; when a sweep of the timer loop is   *)
(* over, by a failing listing call as well, the scheduler is running as    *)
(* before and the loop sleeps for the interval again.                      *)
(***************************************************************************)
C28_FailuresNotFatal ==
    [][\A t \in Tasks :
          /\ FailedRunReturns(t)
                /\ NextIssue(sweep[t].all_issues, sweep[t].pos) # 0
                => LET k == NextIssue(sweep[t].all_issues, sweep[t].pos)
                   IN  /\ sweep'[t].pc = "process"
                       /\ sweep'[t].pos = k
                       /\ run'[t] = NewRun(sweep[t].all_issues[k].number)
          /\ TimerSweepEnds(t)
                => /\ sched'.is_running = sched.is_running
                   /\ sched.is_running
                   /\ sweep'[t] = Sleeping(sched.interval_minutes)]_vars

\* the listing of the first sweep failed; the loop has fired again, the run
\* for the first listed issue has raised, and the run for the second one
\* has been started
C28_Witness ==
    \E t \in Tasks :
        /\ sched.is_running
        /\ sched.total_runs = 2
        /\ \E i \in 1..Len(logs) : logs[i].message = "Scheduler loop error"
        /\ sweep[t].kind = "timer"
        /\ sweep[t].pc = "process"
        /\ sweep[t].pos = 2
        /\ sweep[t].processing_errors = 1
        /\ run[t].fetched

(***************************************************************************)
(* The control surface (routers/scheduler.py): every endpoint constructs a *)
(* SchedulerService of its own and calls one method of it.  `sched` and    *)
(* `logs` hold the fields of the instance the last request constructed;    *)
(* the instance of an earlier request lives on only as the `self` of the   *)
(* loop task it created, which stays in the event loop (`sweep`).  The     *)
(* timers do not fire while the surface is observed.                       *)
(***************************************************************************)
\* scheduler_service = SchedulerService()
Constructed == [Service EXCEPT !.sched = NewScheduler, !.logs = <<>>]

\* POST /start (lines 56-69)
start_scheduler ==
    /\ HasFreeSlot(Constructed)
    /\ Set(start(Constructed))
    /\ reply' = Reply("start", TRUE)
    /\ UNCHANGED tracker_vars

\* POST /stop (lines 72-84)
stop_scheduler ==
    /\ Set(stop(Constructed))
    /\ reply' = Reply("stop", TRUE)
    /\ UNCHANGED tracker_vars

\* GET /status (lines 36-53)
get_scheduler_status ==
    /\ Set(Constructed)
    /\ reply' = [Reply("get_status", TRUE) EXCEPT
                    !.status = get_status(Constructed.sched)]
    /\ UNCHANGED tracker_vars

\* GET /logs (lines 126-138)
get_scheduler_logs(limit) ==
    /\ Set(Constructed)
    /\ reply' = [Reply("get_logs", TRUE) EXCEPT
                    !.entries = get_logs(Constructed.logs, limit)]
    /\ UNCHANGED tracker_vars

RouterNext ==
    \/ Within(MaxCalls) /\ start_scheduler
    \/ Within(MaxCalls) /\ stop_scheduler
    \/ Within(MaxCalls) /\ get_scheduler_status
    \/ Within(MaxCalls) /\ \E l \in Limits : get_scheduler_logs(l)

RouterSpec == ControlInit /\ [][RouterNext]_vars

(***************************************************************************)
(* C29: the status surface reflects the effect of earlier control          *)
(* operations: a status query that follows a start request reports         *)
(* running = true, a log query that follows it returns the entry of the    *)
(* start, and after a stop request no timer loop is alive.                 *)
(* Violated: each request acts on a SchedulerService constructed for it.   *)
(* The status and the log are those of a new instance, and stop() finds    *)
(* is_running false and returns without cancelling the loop task of the    *)
(* instance the start request constructed.                                 *)
(***************************************************************************)
C29_SurfaceReflectsControl ==
    [][/\ reply.op = "start" /\ Returns("get_status") => reply'.status.running
       /\ reply.op = "start" /\ Returns("get_logs") => reply'.entries # <<>>
       /\ Returns("stop") => \A t \in Tasks : ~TimerLive(t)']_vars

\* the pcs of a run after its branch: the removal of the working label, the
\* handler, the end
AfterPcs == {"remove_working", "remove_working_err", "error_comment", "done"}

\* the step is an assistant call, a VCS call or a comment post of run t
EffectCall(t) ==
    \/ run'[t].calls.assistant # run[t].calls.assistant
    \/ run'[t].calls.vcs # run[t].calls.vcs
    \/ comments'[run[t].issue] # comments[run[t].issue]

\* the step removes the working label from the issue of run t
WorkingRemoved(t) ==
    /\ GITHUB_WORKING_LABEL \in labels[run[t].issue]
    /\ GITHUB_WORKING_LABEL \notin labels'[run[t].issue]

(***************************************************************************)
(* C30: within one process run the operations are sequential in the order  *)
(* fetch, add working label, act, label update.  For the only run of an    *)
(* issue: the fetch is followed by the addition of the working label or by *)
(* the end of the run, the addition by the chosen branch or by the end;    *)
(* every assistant call, VCS call and comment post is made after the       *)
(* working label was added, those of the branch while the issue carries    *)
(* it; the working label is removed only when the branch is over, and no   *)
(* step of the branch follows.                                             *)
(***************************************************************************)
C30_RunIsSequential ==
    [][\A t \in Tasks :
          OnlyRun(t) /\ OnlyRun(t)' =>
            /\ run[t].pc = "get_issue" =>
                    run'[t].pc \in {"get_issue", "add_working", "done"}
            /\ run[t].pc = "add_working" =>
                    run'[t].pc \in {"add_working", "analyze", "create_branch", "done"}
            /\ run[t].pc \in AfterPcs => run'[t].pc \in AfterPcs
            /\ EffectCall(t) =>
                    \/ Acting(t) /\ GITHUB_WORKING_LABEL \in labels[run[t].issue]
                    \/ run[t].pc = "error_comment"
            /\ Acting(t)' => GITHUB_WORKING_LABEL \in labels'[run[t].issue]
            /\ WorkingRemoved(t) =>
                    /\ run[t].pc \in {"remove_working", "remove_working_err"}
                    /\ run'[t].pc \in {"done", "error_comment"}]_vars

\* the only run of an issue has proposed and removed the working label
C30_Witness ==
    \E t \in Tasks :
        /\ OnlyRun(t)
        /\ Succeeded(t)
        /\ run[t].outcome.status = "proposal_created"
        /\ run[t].calls.assistant = 1
        /\ Len(comments[run[t].issue]) = 1
        /\ GITHUB_WORKING_LABEL \notin labels[run[t].issue]

\* pc -> the pcs a step of an Implement run can lead to; a failing call
\* leads to the handler (remove_working_err)
ImplementOrder ==
    [create_branch |-> {"implement"},
     implement |-> {"has_changes"},
     has_changes |-> {"commit", "no_changes_comment"},
     commit |-> {"push"},
     push |-> {"create_pr"},
     create_pr |-> {"completion_comment"},
     completion_comment |-> {"remove_approved"},
     remove_approved |-> {"remove_working"},
     no_changes_comment |-> {"remove_approved_nc"},
     remove_approved_nc |-> {"remove_working"}]

\* branch b has been pushed
Pushed(b) == \E i \in DOMAIN git.pushed : git.pushed[i] = b

\* a commit has been made for issue n
Committed(n) ==
    \E i \in DOMAIN git.commits : git.commits[i].message = <<"resolve issue #", n>>

\* a comment of kind k is on issue n
Commented(n, k) == \E i \in DOMAIN comments[n] : comments[n][i].kind = k

\* a pull request for issue n is open
PrOpened(n) == \E i \in DOMAIN prs : prs[i].resolves = n

(***************************************************************************)
(* C31: in an Implement run the delivery steps happen in the order create  *)
(* branch, assistant call, pending-changes check, commit, push, open pull  *)
(* request, completion comment, remove approved label, each only after the *)
(* previous one returned: a step of the run leads to the next step of this *)
(* order or, when its call raised, to the handler.  A branch is pushed     *)
(* only after the commit for its issue, a pull request is opened only for  *)
(* a pushed branch, the completion comment is posted only when the pull    *)
(* request exists, and the approved label is removed only when the         *)
(* completion comment or the no-changes comment is on the issue.           *)
(***************************************************************************)
C31_DeliveryOrder ==
    [][\A t \in Tasks :
          LET n == run[t].issue IN
          run[t].pc \in ImplementPcs /\ run'[t] # run[t] =>
            /\ run'[t].pc \in ImplementOrder[run[t].pc] \cup {"remove_working_err"}
            /\ git'.pushed # git.pushed => Committed(n)
            /\ prs' # prs =>
                    /\ Pushed(branch_name(n))
                    /\ prs'[Len(prs')].head = branch_name(n)
            /\ Commented(n, "completion")' /\ ~Commented(n, "completion") =>
                    PrOpened(n)
            /\ GITHUB_APPROVED_LABEL \in labels[n] \ labels'[n] =>
                    \/ PrOpened(n) /\ Commented(n, "completion")
                    \/ Commented(n, "no_changes")]_vars

\* an Implement run has gone through all the steps of the changes case
C31_Witness ==
    \E t \in Tasks :
        LET n == run[t].issue IN
        /\ Succeeded(t)
        /\ run[t].outcome.status = "implemented"
        /\ Committed(n) /\ Pushed(branch_name(n)) /\ PrOpened(n)
        /\ Commented(n, "completion")
        /\ GITHUB_APPROVED_LABEL \notin labels[n]

\* the label whose presence made the run of an issue with labels ls act
TriggerOf(ls) ==
    IF GITHUB_APPROVED_LABEL \in ls THEN GITHUB_APPROVED_LABEL ELSE GITHUB_ISSUE_LABEL

\* the only run so far was made by task t on an issue that carried its
\* trigger label and not the working label, and it has raised
FailedTriggeredRun(t) ==
    /\ OnlyRun(t)
    /\ Done(t)
    /\ run[t].outcome.status = "raised"
    /\ GITHUB_WORKING_LABEL \notin labels0[run[t].issue]
    /\ TriggerOf(labels0[run[t].issue]) \in labels0[run[t].issue]

(***************************************************************************)
(* C32: a failed run leaves the label that triggered it on the issue:      *)
(* after a Propose run that failed the ready label is still present, after *)
(* an Implement run that failed the approved label is still present.       *)
(* Violated: the removal of the working label (line 66) comes after the    *)
(* branch has removed the trigger label (lines 128, 222, 248) and is       *)
(* inside the inner try; when it fails the run raises although the trigger *)
(* label is gone.                                                          *)
(***************************************************************************)
C32_FailedRunKeepsTrigger ==
    \A t \in Tasks :
        FailedTriggeredRun(t) =>
            TriggerOf(labels0[run[t].issue]) \in labels[run[t].issue]

\* the same, for the runs that failed inside their branch
C32_FailedBranchKeepsTrigger ==
    \A t \in Tasks :
        FailedTriggeredRun(t) /\ run[t].result = NoResult =>
            TriggerOf(labels0[run[t].issue]) \in labels[run[t].issue]

(***************************************************************************)
(* C33: within a single sweep process_issue is called at most once for     *)
(* each issue, also for an issue that carries both the ready and the       *)
(* approved label and is in both listings.                                 *)
(* Violated: all_issues = issues + approved_issues (line 268) keeps both   *)
(* entries of such an issue, and the for loop calls process_issue for each *)
(* entry.                                                                  *)
(***************************************************************************)
C33_DispatchedOncePerSweep ==
    \A t \in Tasks :
        \A i, j \in DOMAIN sweep[t].called :
            sweep[t].called[i] = sweep[t].called[j] => i = j

(***************************************************************************)
(* C34: for one approval of an issue at most one pull request is ever      *)
(* opened, over any sequence of runs and gateway failures.  No maintainer  *)
(* edits the labels here, so an issue is approved at most once: no two     *)
(* pull requests are for the same issue.                                   *)
(***************************************************************************)
C34_AtMostOnePullRequest ==
    \A i, j \in DOMAIN prs : prs[i].resolves = prs[j].resolves => i = j

\* a run opened the pull request and failed afterwards, so that the issue
\* kept the approved label; a later run of the issue is over as well
C34_Witness ==
    \E t, u \in Tasks :
        /\ t # u
        /\ nDispatch = 2
        /\ Done(t) /\ Done(u)
        /\ run[t].url # <<>>
        /\ run[t].outcome.status = "raised"
        /\ run[u].outcome.status = "raised"
        /\ GITHUB_APPROVED_LABEL \in run[u].labels
        /\ GITHUB_APPROVED_LABEL \in labels[run[t].issue]
        /\ Len(prs) = 1

(***************************************************************************)
(* The timer loop of a scheduler that keeps running: start is called and   *)
(* stop never is.  The event loop resumes every coroutine that can run, so *)
(* the sleep of the loop ends, every awaited call returns or raises and    *)
(* every run goes on: weak fairness of the step relation.                  *)
(***************************************************************************)
LiveNext ==
    \/ Within(MaxTimerOps) /\ Start
    \/ Within(MaxTimerOps) /\ \E t \in Tasks : TimerFires(t)
    \/ SweepStep
    \/ ProcessStep

LiveSpec == TimerInit /\ [][LiveNext]_vars /\ WF_vars(LiveNext)

\* issue n carries ready or approved and the working label, and no run is
\* working on it: line 282 of every sweep and line 49 of every run skip it
Excluded(n) ==
    /\ GITHUB_WORKING_LABEL \in labels[n]
    /\ labels[n] \cap {GITHUB_ISSUE_LABEL, GITHUB_APPROVED_LABEL} # {}
    /\ \A t \in Tasks : InFlight(t) => run[t].issue # n

(***************************************************************************)
(* C35: while the scheduler keeps running, no sequence of failed runs      *)
(* leaves an issue that carries ready or approved excluded from the sweeps *)
(* (for example by a working label that is never cleared), so that every   *)
(* such issue eventually completes a run: no run ends with the issue       *)
(* excluded.  Violated: the remove_label of line 73 raises, the run ends   *)
(* with the working label on the issue, and no code removes the label of   *)
(* an issue no run is working on.                                          *)
(***************************************************************************)
C35_NoRunLeavesExcluded ==
    \A n \in DOMAIN TimerIssues : ~Excluded(n)

\* the same as a liveness property: an exclusion ends
C35_NoPermanentExclusion ==
    \A n \in DOMAIN TimerIssues : Excluded(n) ~> ~Excluded(n)

\* no step of the scheduler or of a run ends an exclusion
C35_ExclusionIsPermanent ==
    [][\A n \in DOMAIN TimerIssues : Excluded(n) => Excluded(n)']_vars

(***************************************************************************)
(* C36: after any sequence of control requests at most one timer loop is   *)
(* active, and a start request issued while a timer loop is active creates *)
(* no second loop and reports that the scheduler is already running.       *)
(* Violated: the start endpoint calls start() on a SchedulerService        *)
(* constructed for the request, whose is_running is false; it creates a    *)
(* second loop task and reports success.                                   *)
(***************************************************************************)
C36_SingleTimerLoop ==
    [][/\ \A t, u \in Tasks : TimerLive(t)' /\ TimerLive(u)' => t = u
       /\ ((\E t \in Tasks : TimerLive(t)) /\ Returns("start"))
            => ~reply'.success /\ sweep' = sweep]_vars

(***************************************************************************)
(* One SchedulerService under any configuration: settings are read from    *)
(* the environment (config.py lines 12-13), so SCHEDULER_ENABLED, false by *)
(* default, may be set to true; __init__ copies it into stats["enabled"]   *)
(* (line 34).  The calls are start, stop, update_config and run_now; the   *)
(* timer loop sweeps.                                                      *)
(***************************************************************************)
ConfigInit ==
    /\ labels \in [IssueNumbers -> {{GITHUB_ISSUE_LABEL}, {GITHUB_APPROVED_LABEL}}]
    /\ comments = [n \in IssueNumbers |-> <<>>]
    /\ prs = <<>>
    /\ git = CleanGit
    /\ run = [t \in Tasks |-> NoRun]
    /\ nDispatch = 0
    /\ labels0 = labels
    /\ human = 0
    /\ http = NoHttp
    /\ \E e \in BOOLEAN : sched = [NewScheduler EXCEPT !.enabled = e]
    /\ logs = <<>>
    /\ now = 0
    /\ sweep = [t \in Tasks |-> NoSweep]
    /\ reply = NoReply

ConfigNext ==
    \/ Within(MaxTimerOps) /\ Start
    \/ Within(MaxTimerOps) /\ Stop
    \/ Within(MaxTimerOps) /\ \E e \in BOOLEAN, i \in Intervals : UpdateConfig(e, i)
    \/ Within(MaxTimerOps) /\ RunNow
    \/ Within(MaxTimerOps) /\ \E t \in Tasks : TimerFires(t)
    \/ SweepStep
    \/ ProcessStep

ConfigSpec == ConfigInit /\ [][ConfigNext]_vars

(***************************************************************************)
(* C37: in every reachable state of a scheduler service the reported       *)
(* enabled flag equals the running flag, and next_run is set exactly when  *)
(* the scheduler is running, from construction onward.  Violated: with     *)
(* SCHEDULER_ENABLED set, the service is constructed with enabled true     *)
(* and is_running false, and nothing starts it.                            *)
(***************************************************************************)
C37_EnabledIsRunning ==
    /\ get_status(sched).enabled = get_status(sched).running
    /\ get_status(sched).next_run # None <=> get_status(sched).running

\* no call and no step of the loop breaks the relation once it holds
C37_StepsKeepRelation ==
    [][C37_EnabledIsRunning => C37_EnabledIsRunning']_vars

\* the entries with message m the step appended to the log: the clock ticks
\* at every entry, so these are the entries stamped `now` or later
AppendedWith(m) ==
    {k \in 1..Len(logs') : logs'[k].timestamp >= now /\ logs'[k].message = m}

(***************************************************************************)
(* C38: after update_config(enabled, interval) returns, from any prior     *)
(* state, the status reports enabled and running equal to the requested    *)
(* enabled value and the requested interval, and exactly one entry         *)
(* "Scheduler configuration updated" was appended to the log.              *)
(* Violated: update_config never assigns stats["enabled"]; on a service    *)
(* constructed with SCHEDULER_ENABLED set and not started,                 *)
(* update_config(False, ...) leaves the reported flag true.                *)
(***************************************************************************)
C38_UpdateTakesEffect ==
    [][\A e \in BOOLEAN, i \in Intervals :
            UpdateConfig(e, i)
                => /\ get_status(sched').enabled = e
                   /\ get_status(sched').running = e
                   /\ get_status(sched').interval_minutes = i
                   /\ Cardinality(AppendedWith("Scheduler configuration updated")) = 1
                   /\ logs'[Len(logs')].message = "Scheduler configuration updated"]_vars

(***************************************************************************)
(* C39: start on a scheduler that is running, and stop on a scheduler that *)
(* is not running, return success = false and change nothing: the running  *)
(* and enabled flags, next_run, the timer task, the counters, the log and  *)
(* the coroutines are as before.                                           *)
(***************************************************************************)
C39_RefusedCallChangesNothing ==
    [][((Returns("start") /\ sched.is_running)
            \/ (Returns("stop") /\ ~sched.is_running))
        => /\ ~reply'.success
           /\ ~reply'.raised
           /\ UNCHANGED <<sched, logs, now, sweep, run, nDispatch>>]_vars

\* start has been refused while the timer loop was in a later sweep, with
\* entries in the log
C39_Witness ==
    /\ reply.op = "start"
    /\ ~reply.success
    /\ sched.is_running
    /\ sched.total_runs > 0
    /\ logs # <<>>
    /\ \E t \in Tasks : TimerSweeping(t)

\* the smaller of two numbers
Min(a, b) == IF a < b THEN a ELSE b

(***************************************************************************)
(* C40: get_logs(limit) with limit > 0 returns the most recent             *)
(* min(limit, number of stored entries) entries in insertion order; with   *)
(* limit <= 0 it returns all stored entries; the result never has more     *)
(* entries than the log capacity.                                          *)
(***************************************************************************)
C40_GetLogsReturnsMostRecent ==
    [][\A l \in Limits :
            GetLogs(l)
                => LET r == reply'.entries
                       n == IF l > 0 THEN Min(l, Len(logs)) ELSE Len(logs)
                   IN  /\ Len(r) = n
                       /\ Len(r) <= max_logs
                       /\ \A i \in 1..n : r[i] = logs[Len(logs) - n + i]]_vars

\* get_logs(50) has returned the 50 most recent entries of a full log
C40_Witness ==
    /\ reply.op = "get_logs"
    /\ Len(logs) = max_logs
    /\ Len(reply.entries) = 50
    /\ reply.entries[50] = logs[max_logs]
    /\ reply.entries[1] = logs[max_logs - 49]

=============================================================================
